---- MODULE Spec2Model ----
(***************************************************************************)
(* UK-Agent-TypeC: plan execution (agents/executor.py), plan creation and  *)
(* validation (agents/supervisor.py), the Plan-Execute-Verify-Report loops *)
(* (tui.py, main.py) and the path guard (utils/path_utils.py).             *)
(***************************************************************************)
EXTENDS Integers, Sequences, FiniteSets, TLC

(***************************************************************************)
(* Bounds of the model                                                     *)
(***************************************************************************)
\* longest plan handed to execute_plan / produced by the Planner stub
MaxSteps == 2

\* objectives submitted in one session
MaxObjectives == 1

\* longest path argument handed to is_path_allowed, in components
MaxPathLen == 3

\* longest .agentignore file, in lines
MaxIgnoreLines == 1

\* tool invocations made one after the other on the same files
MaxToolCalls == 2

\* objectives submitted to the TUI with its threads
MaxSubmissions == 2

\* largest sequence number among the session directories found at start
MaxSeq == 2

\* depth at which the interpreter stops the recursion of create_plan
\* (sys.getrecursionlimit(), which the program never changes)
RecursionLimit == 5

(***************************************************************************)
(* Strings.  A Python string is modelled as a tuple whose first element    *)
(* is its kind and whose other elements are the values formatted into it.  *)
(***************************************************************************)
None == <<>>

Some(x) == <<x>>

\* the thought of a plan
Thoughts == {<<"thought">>}

\* agents/executor.py:87-88  "エラー" in s or "error" in s.lower()
HasErrorMarker(s) == s[1] \in {"Error", "not_found", "not_callable", "exception", "reported"}

(***************************************************************************)
(* Tool registry (tools/__init__.py all_tools).  Three of the registered   *)
(* tools are modelled with their argument schemas; modify_code is the name *)
(* executor.py lists as problematic and no tools module registers.         *)
(***************************************************************************)
all_tools ==
    [ fs_delete_path            |-> [properties |-> {"file_path"},
                                     required   |-> {"file_path"}],
      safe_read_file            |-> [properties |-> {"file_path"},
                                     required   |-> {"file_path"}],
      ai_read_and_apply_changes |-> [properties |-> {"file_path", "instruction"},
                                     required   |-> {"file_path", "instruction"}] ]

\* agents/executor.py:14-16
TOOL_DISPATCHER == all_tools

\* agents/executor.py:86
problematic_tools == {"modify_code"}

\* tool names a plan may carry: the registered ones and an unregistered one
ToolNames == DOMAIN all_tools \cup {"modify_code"}

ArgKeys == {"file_path", "instruction", "unused_key"}

ArgValue == [file_path |-> "a.py", instruction |-> "fix", unused_key |-> "1"]

\* argument mappings a ToolCall may carry
ArgMaps == {[k \in D |-> ArgValue[k]] : D \in SUBSET ArgKeys}

\* agents/schema.py:12-15
ToolCall == [tool_name : ToolNames, arguments : ArgMaps]

SeqsUpTo(S, n) == UNION {[1..m -> S] : m \in 0..n}

\* agents/schema.py:17-23
ExecutionPlan == [thought : Thoughts, plan : SeqsUpTo(ToolCall, MaxSteps)]

\* agents/schema.py:37-42 ; status "none" stands for "no result yet"
NoResult == [status |-> "none", results |-> <<>>, failed_step |-> None, error_message |-> None]

EmptyPlan == [thought |-> <<"thought">>, plan |-> <<>>]

\* no is_path_allowed call is being looked at
NoPathCall == [path |-> <<>>, absolute |-> FALSE, for_read |-> TRUE, ignore_file |-> <<>>]

\* project files the modelled tool calls name (paths relative to the root; a
\* name is a sequence of chunks, the last chunk of a longer name being its
\* extension)
ToolPaths ==
    { << <<"src">>, <<"app", ".py">> >>,
      << <<"data", ".bin">> >>,
      << <<".env">> >>,
      << <<"Dockerfile">> >> }

\* a directory tree without files: every path maps to None, a file to Some(content)
NoFiles == [p \in ToolPaths |-> None]

\* no tool invocation is being looked at
NoToolCall ==
    [name |-> "none", file_path |-> <<>>, content |-> <<>>, fs0 |-> NoFiles,
     backup0 |-> NoFiles]

VARIABLES
    plan,          \* the ExecutionPlan execute_plan was called with
    gen,           \* execute_plan generator: "idle", "start", "loop", "returned"
    i,             \* 1-based index of the step the for loop is at
    results,       \* executor.py local `results`
    final_result,  \* the generator's return value (ExecutionResult)
    invoked,       \* log of tool invocations: <<step, tool_name, args, via>>
    happened,      \* what each step of the current pass did: "not_found",
                   \* "not_callable", "raise", "Error" (error string returned), "ok"
    frontend,      \* "tui" (tui.py AgentApp), "cli" (main.py cli_main), "none"
    conversation_history, \* list of messages <<role, content>>
    feedback,      \* AgentApp.feedback
    current_attempt,      \* AgentApp.current_attempt
    current_plan,  \* AgentApp.current_plan
    input_disabled,       \* #task_input / #submit_button disabled
    pc,            \* what the application is doing for the current objective
    relevant_tools,       \* plan_task local: tools offered to the Planner
    depth,         \* number of recursive create_plan calls below the first one
    pending,       \* the plan create_plan returned, on its way to display_plan
    objectives,    \* objectives submitted so far
    calls,         \* collaborator calls made for the current objective, in order
    log,           \* messages shown to the user for the current objective
    exit,          \* how the last objective ended
    path_call,     \* arguments and environment of an is_path_allowed call
    path_result,   \* what the call returned: "none" (not called yet), "allowed", "denied"
    fs,            \* the project files: relative path -> content, or Absent
    backup_dir,    \* SESSION_BACKUP_DIR: relative path -> content, or Absent
    tool_call,     \* the tool invocation in progress: name, arguments, files at call time
    tool_pc,       \* where that invocation is: "idle", "guard", "read", ..., "done"
    backup_msg,    \* local backup_msg of the tool (None until _backup_file_if_needed ran)
    new_content,   \* the content the tool is about to write
    tool_result,   \* the string the tool returned (None while it runs)
    tool_trace,    \* what the steps of the invocation did, in order
    tool_calls,    \* tool invocations started so far
    workers,       \* the thread workers that are still running their function
    current_worker,       \* AgentApp.current_worker: the objective of the worker
                   \* started last, 0 for None
    screens,       \* the stack of modal dialogs on the screen
    validate_call,        \* the plan handed to _validate_plan, as it was handed over
    validate_result,      \* what _validate_plan returned and the plan object after it
    config_pc,     \* how far the import of config.py has come
    cwd,           \* the process's working directory
    log_dirs,      \* the entries of the agent_log directory of each root
    SESSION_BACKUP_DIR,   \* config.SESSION_BACKUP_DIR
    created,       \* the session directories this process has created, in order
    result_read    \* what a caller of execute_plan took for its ExecutionResult

workerVars == <<workers, current_worker, screens>>

validateVars == <<validate_call, validate_result>>

configVars == <<config_pc, cwd, log_dirs, SESSION_BACKUP_DIR, created>>

callerVars == <<result_read>>

\* no call site of execute_plan is looked at on its own
CallerUnused == result_read = None

\* the validation variables of a state in which _validate_plan is not looked at
ValidateUnused ==
    /\ validate_call = EmptyPlan
    /\ validate_result = None

\* the configuration variables of a state in which the import of config.py
\* is not looked at
ConfigUnused ==
    /\ config_pc = "imported"
    /\ cwd = "package_root"
    /\ log_dirs = [root \in {"package_root", "elsewhere"} |-> {}]
    /\ SESSION_BACKUP_DIR = None
    /\ created = <<>>

\* the thread variables of a state in which the threads are not looked at
WorkersUnused ==
    /\ workers = {}
    /\ current_worker = 0
    /\ screens = <<>>

\* the tool variables of a state in which no tool is looked at
ToolsUnused ==
    /\ fs = NoFiles
    /\ backup_dir = NoFiles
    /\ tool_call = NoToolCall
    /\ tool_pc = "idle"
    /\ backup_msg = None
    /\ new_content = None
    /\ tool_result = None
    /\ tool_trace = <<>>
    /\ tool_calls = 0

execVars == <<plan, gen, i, results, final_result, invoked, happened>>

loopVars == <<frontend, conversation_history, feedback, current_attempt, current_plan,
              input_disabled, pc, relevant_tools, depth, pending, objectives, calls,
              log, exit>>

pathVars == <<path_call, path_result>>

toolVars == <<fs, backup_dir, tool_call, tool_pc, backup_msg, new_content, tool_result,
              tool_trace, tool_calls>>

vars == <<plan, gen, i, results, final_result, invoked, happened,
          frontend, conversation_history, feedback, current_attempt, current_plan,
          input_disabled, pc, relevant_tools, depth, pending, objectives, calls,
          log, exit, path_call, path_result,
          fs, backup_dir, tool_call, tool_pc, backup_msg, new_content, tool_result,
          tool_trace, tool_calls, workers, current_worker, screens,
          validate_call, validate_result,
          config_pc, cwd, log_dirs, SESSION_BACKUP_DIR, created, result_read>>

(***************************************************************************)
(* agents/executor.py execute_plan                                         *)
(***************************************************************************)
UnfilteredArgs(arguments, expected_args) == arguments

\* executor.py:59-62  dict comprehension keeping the expected keys
sanitized_args(arguments, expected_args) ==
    [k \in (DOMAIN arguments) \cap expected_args |-> arguments[k]]

\* executor.py:50  every registered tool is a langchain tool object
Callable(name) == TRUE

\* what an invocation with these arguments can do: a tool whose required
\* arguments are missing raises (pydantic validation in run, TypeError in the
\* direct call of executor.py:78); otherwise it returns a normal string,
\* returns an error string, or raises
ToolOutcomes(name, args) ==
    IF all_tools[name].required \subseteq DOMAIN args
        THEN {"ok", "Error", "raise"}
        ELSE {"raise"}

EmptyPlanResultNoThought(p) ==
    [status |-> "success", results |-> <<>>, failed_step |-> None, error_message |-> None]

\* executor.py:28-33
EmptyPlanResult(p) ==
    [status |-> "success", results |-> <<p.thought>>,
     failed_step |-> None, error_message |-> None]

FailureZeroBased(res, k, msg) ==
    [status |-> "failure", results |-> Append(res, msg),
     failed_step |-> Some(k - 1), error_message |-> Some(msg)]

\* executor.py:47-48, 53-54, 91-92, 99-100
Failure(res, k, msg) ==
    [status |-> "failure", results |-> Append(res, msg),
     failed_step |-> Some(k), error_message |-> Some(msg)]

AfterFailureContinue(res, k, msg) ==
    [gen |-> "loop", i |-> k + 1, results |-> Append(res, msg), final_result |-> NoResult]

\* a failing step returns from the generator (executor.py:48, 54, 92, 100)
AfterFailure(res, k, msg) ==
    [gen |-> "returned", i |-> k, results |-> Failure(res, k, msg).results,
     final_result |-> Failure(res, k, msg)]

\* a passing step appends its result and the for loop goes on (executor.py:94-95)
AfterSuccess(res, k, result_str) ==
    [gen |-> "loop", i |-> k + 1, results |-> Append(res, result_str),
     final_result |-> NoResult]

\* executor.py:84-95  what the loop body does with a returned result
AfterReturn(res, k, name, result_str) ==
    IF name \in problematic_tools /\ HasErrorMarker(result_str)
        THEN AfterFailure(res, k, <<"reported", name, result_str>>)
        ELSE AfterSuccess(res, k, result_str)

\* executor.py:27-35
ExecutePlanEmpty ==
    /\ gen = "start"
    /\ plan.plan = <<>>
    /\ final_result' = EmptyPlanResult(plan)
    /\ gen' = "returned"
    /\ UNCHANGED <<plan, i, results, invoked, happened>>
    /\ UNCHANGED loopVars
    /\ UNCHANGED pathVars
    /\ UNCHANGED toolVars
    /\ UNCHANGED workerVars
    /\ UNCHANGED validateVars
    /\ UNCHANGED configVars
    /\ UNCHANGED callerVars

\* executor.py:37-38
ExecutePlanBegin ==
    /\ gen = "start"
    /\ plan.plan # <<>>
    /\ results' = <<>>
    /\ i' = 1
    /\ gen' = "loop"
    /\ UNCHANGED <<plan, final_result, invoked, happened>>
    /\ UNCHANGED loopVars
    /\ UNCHANGED pathVars
    /\ UNCHANGED toolVars
    /\ UNCHANGED workerVars
    /\ UNCHANGED validateVars
    /\ UNCHANGED configVars
    /\ UNCHANGED callerVars

Apply(after) ==
    /\ gen' = after.gen
    /\ i' = after.i
    /\ results' = after.results
    /\ final_result' = after.final_result

\* executor.py:39-100, one iteration of the for loop
ExecutePlanStep ==
    /\ gen = "loop"
    /\ i <= Len(plan.plan)
    /\ UNCHANGED loopVars
    /\ UNCHANGED pathVars
    /\ UNCHANGED toolVars
    /\ UNCHANGED workerVars
    /\ UNCHANGED validateVars
    /\ UNCHANGED configVars
    /\ UNCHANGED callerVars
    /\ LET step == plan.plan[i]
           name == step.tool_name
       IN  IF name \notin DOMAIN TOOL_DISPATCHER
           THEN \* executor.py:44-48
                /\ Apply(AfterFailure(results, i, <<"not_found", name>>))
                /\ happened' = Append(happened, "not_found")
                /\ UNCHANGED <<plan, invoked>>
           ELSE IF ~Callable(name)
           THEN \* executor.py:50-54
                /\ Apply(AfterFailure(results, i, <<"not_callable", name>>))
                /\ happened' = Append(happened, "not_callable")
                /\ UNCHANGED <<plan, invoked>>
           ELSE LET args == sanitized_args(step.arguments, TOOL_DISPATCHER[name].properties)
                    via  == IF name = "ai_read_and_apply_changes" THEN "func" ELSE "run"
                IN  \E out \in ToolOutcomes(name, args) :
                      /\ invoked' = Append(invoked, <<i, name, args, via>>)
                      /\ happened' = Append(happened, out)
                      /\ IF out = "raise"
                         THEN \* executor.py:96-100
                              Apply(AfterFailure(results, i, <<"exception", name>>))
                         ELSE Apply(AfterReturn(results, i, name, <<out, name>>))
                      /\ UNCHANGED plan

\* executor.py:102-104
ExecutePlanFinish ==
    /\ gen = "loop"
    /\ i > Len(plan.plan)
    /\ final_result' = [status |-> "success", results |-> results,
                        failed_step |-> None, error_message |-> None]
    /\ gen' = "returned"
    /\ UNCHANGED <<plan, i, results, invoked, happened>>
    /\ UNCHANGED loopVars
    /\ UNCHANGED pathVars
    /\ UNCHANGED toolVars
    /\ UNCHANGED workerVars
    /\ UNCHANGED validateVars
    /\ UNCHANGED configVars
    /\ UNCHANGED callerVars

(***************************************************************************)
(* execute_plan called on an arbitrary plan                                *)
(***************************************************************************)
InitExec ==
    /\ plan \in ExecutionPlan
    /\ gen = "start"
    /\ i = 0
    /\ results = <<>>
    /\ final_result = NoResult
    /\ invoked = <<>>
    /\ happened = <<>>
    /\ frontend = "none"
    /\ conversation_history = <<>>
    /\ feedback = None
    /\ current_attempt = 0
    /\ current_plan = EmptyPlan
    /\ input_disabled = FALSE
    /\ pc = "idle"
    /\ relevant_tools = {}
    /\ depth = 0
    /\ pending = EmptyPlan
    /\ objectives = 0
    /\ calls = <<>>
    /\ log = <<>>
    /\ exit = "none"
    /\ path_call = NoPathCall
    /\ path_result = "none"
    /\ ToolsUnused
    /\ WorkersUnused
    /\ ValidateUnused
    /\ ConfigUnused
    /\ CallerUnused

NextExec == ExecutePlanEmpty \/ ExecutePlanBegin \/ ExecutePlanStep \/ ExecutePlanFinish

SpecExec == InitExec /\ [][NextExec]_vars

(***************************************************************************)
(* Properties of execute_plan                                              *)
(***************************************************************************)
\* the Executor's own failure paths: tool not in the registry, tool not
\* executable, invocation raised, or a problematic tool reported an error
StepFailed(k) ==
    \/ happened[k] \in {"not_found", "not_callable", "raise"}
    \/ happened[k] = "Error" /\ plan.plan[k].tool_name \in problematic_tools

FirstFailed(k) == StepFailed(k) /\ \A j \in 1..(k - 1) : ~StepFailed(j)

C2_FailFastOrdered ==
    /\ \A n \in 1..Len(invoked) : \A m \in 1..(n - 1) : invoked[m][1] < invoked[n][1]
    /\ \A n \in 1..Len(invoked) : invoked[n][2] = plan.plan[invoked[n][1]].tool_name
    /\ \A k \in 1..Len(happened) :
          StepFailed(k) =>
              /\ Len(happened) = k
              /\ \A n \in 1..Len(invoked) : invoked[n][1] <= k

C2_Witness ==
    /\ gen = "returned"
    /\ Len(plan.plan) = 2
    /\ happened = <<"raise">>
    /\ Len(invoked) = 1

\* C3: a step whose tool returned normally with an error string stops the
\* plan: the result is a failure with failed_step at that step and no later
\* step runs
C3_ErrorMarkerStopsPlan ==
    \A k \in 1..Len(happened) :
        happened[k] = "Error" =>
            /\ final_result.status = "failure"
            /\ final_result.failed_step = Some(k)
            /\ Len(happened) = k

\* C4: for an empty plan no tool is invoked and the result is success with
\* results = [thought] and failed_step, error_message unset
C4_EmptyPlan ==
    (gen = "returned" /\ plan.plan = <<>>) =>
        /\ invoked = <<>>
        /\ final_result.status = "success"
        /\ final_result.results = <<plan.thought>>
        /\ final_result.failed_step = None
        /\ final_result.error_message = None

C4_Witness == gen = "returned" /\ plan.plan = <<>> /\ final_result.status = "success"

\* C5: every invocation receives exactly the step's arguments restricted to
\* the tool's recognized fields, values unchanged
C5_ArgumentsRestricted ==
    \A n \in 1..Len(invoked) :
        LET step  == plan.plan[invoked[n][1]]
            known == all_tools[step.tool_name].properties
        IN  /\ DOMAIN invoked[n][3] = (DOMAIN step.arguments) \cap known
            /\ \A key \in DOMAIN invoked[n][3] : invoked[n][3][key] = step.arguments[key]

C5_Witness ==
    \E n \in 1..Len(invoked) :
        /\ invoked[n][2] = "safe_read_file"
        /\ DOMAIN plan.plan[invoked[n][1]].arguments = {"unused_key", "file_path"}
        /\ invoked[n][3] = [k \in {"file_path"} |-> "a.py"]


(***************************************************************************)
(* agents/supervisor.py: _validate_plan and create_plan                    *)
(***************************************************************************)
tool_map_offered == [n \in {"fs_delete_path"} |-> all_tools[n]]

\* supervisor.py:49-50
tool_map == all_tools

AllArguments(step, expected_args) == step.arguments

\* supervisor.py:63-70: the arguments of a step once the keys that are not
\* fields of the tool's schema have been deleted
KeptArguments(step, expected_args) ==
    [key \in (DOMAIN step.arguments) \cap expected_args |-> step.arguments[key]]

RECURSIVE ValidateFrom(_, _)
\* supervisor.py:55-78, the for loop from step k on; the steps are changed
\* in place, so what was stripped before an error stays stripped
ValidateFrom(steps, k) ==
    IF k > Len(steps)
    THEN [error |-> None, steps |-> steps]
    ELSE LET step == steps[k]
             name == step.tool_name
         IN  IF name \notin DOMAIN tool_map
             THEN [error |-> Some(<<"unknown_tool", name>>), steps |-> steps]
             ELSE LET expected_args == tool_map[name].properties
                      kept   == KeptArguments(step, expected_args)
                      steps2 == [steps EXCEPT ![k] = [tool_name |-> name, arguments |-> kept]]
                  IN  IF ~(tool_map[name].required \subseteq DOMAIN kept)
                      THEN [error |-> Some(<<"bad_arguments", name>>), steps |-> steps2]
                      ELSE ValidateFrom(steps2, k + 1)

\* supervisor.py:44-78
_validate_plan(p) ==
    IF p.plan = <<>>
    THEN [error |-> None, plan |-> p]
    ELSE LET r == ValidateFrom(p.plan, 1)
         IN  [error |-> r.error, plan |-> [p EXCEPT !.plan = r.steps]]

Args(D) == [k \in D |-> ArgValue[k]]

\* the steps the Planner stub builds its plans from
PlannerSteps ==
    { [tool_name |-> "safe_read_file", arguments |-> Args({"file_path", "unused_key"})],
      [tool_name |-> "safe_read_file", arguments |-> Args({})],
      [tool_name |-> "modify_code", arguments |-> Args({})],
      [tool_name |-> "ai_read_and_apply_changes",
       arguments |-> Args({"file_path", "instruction"})] }

PlannerPlans == [thought : Thoughts, plan : SeqsUpTo(PlannerSteps, MaxSteps)]

\* what structured_llm.invoke can do (supervisor.py:119): return a plan,
\* raise a pydantic ValidationError, raise anything else
PlannerOutputs ==
    {[kind |-> "plan", plan |-> p] : p \in PlannerPlans}
        \cup {[kind |-> "ValidationError", plan |-> EmptyPlan],
              [kind |-> "Exception", plan |-> EmptyPlan]}

ErrorPlanWithStep ==
    [thought |-> <<"planning_error">>,
     plan |-> <<[tool_name |-> "safe_read_file", arguments |-> [file_path |-> "a.py"]]>>]

\* supervisor.py:130-133
ErrorPlan == [thought |-> <<"planning_error">>, plan |-> <<>>]

\* supervisor.py:87-115, the part of create_plan before its try block:
\* get_tools_string iterates `tools`, the prompt file is read and the LLM
\* client is built; with tools that are not a list of tools this raises
CreatePlanPrologue(tools) ==
    IF tools.kind = "list" THEN {"ok", "raise"} ELSE {"raise"}

ToolList(names) == [kind |-> "list", names |-> names]

NotAList == [kind |-> "other", names |-> {}]

(***************************************************************************)
(* tui.py AgentApp                                                         *)
(***************************************************************************)
\* tui.py:127
max_attempts == 3

HumanMessage(content) == <<"human", content>>

AIMessage(content) == <<"ai", content>>

\* tui.py:247-258 (tool lists restricted to the modelled registry)
safe_code_editing_tools_list == {"safe_read_file"}

ai_assisted_coding_tools_list == {"ai_read_and_apply_changes"}

file_system_tools_list == {"fs_delete_path"}

RelevantTools(task_type) ==
    CASE task_type = "code_editing" ->
            safe_code_editing_tools_list \cup ai_assisted_coding_tools_list
                \cup file_system_tools_list
      [] task_type = "reporting" -> file_system_tools_list
      [] task_type = "file_system" -> file_system_tools_list
      [] OTHER -> DOMAIN all_tools

\* supervisor.py:142-171
TaskTypes == {"code_editing", "reporting", "file_system", "general_qa"}

\* locals of a finished execute_and_verify_task / plan_task
ExecIdle ==
    /\ plan' = EmptyPlan
    /\ gen' = "idle"
    /\ i' = 0
    /\ results' = <<>>
    /\ final_result' = NoResult
    /\ invoked' = <<>>
    /\ happened' = <<>>

\* tui.py:158-214
on_button_pressed ==
    /\ UNCHANGED pathVars
    /\ UNCHANGED toolVars
    /\ UNCHANGED workerVars
    /\ UNCHANGED validateVars
    /\ UNCHANGED configVars
    /\ UNCHANGED callerVars
    /\ frontend = "tui"
    /\ ~input_disabled
    /\ \E user_input \in {"reset", "objective"} :
          IF user_input = "reset"
          THEN \* tui.py:172-200
               /\ conversation_history' = <<>>
               /\ feedback' = None
               /\ UNCHANGED <<current_attempt, input_disabled, pc, objectives, calls, log, exit>>
          ELSE \* tui.py:202-214
               /\ objectives < MaxObjectives
               /\ objectives' = objectives + 1
               /\ conversation_history' = Append(conversation_history, HumanMessage("objective"))
               /\ feedback' = None
               /\ current_attempt' = 0
               /\ input_disabled' = TRUE
               /\ pc' = "plan_task"
               /\ calls' = <<>>
               /\ log' = <<>>
               /\ exit' = "none"
    /\ UNCHANGED <<frontend, current_plan, relevant_tools, depth, pending>>
    /\ UNCHANGED execVars

HasHumanMessage(history) == \E n \in 1..Len(history) : history[n][1] = "human"

\* tui.py:222-265 up to the try block of create_plan, and 267-272
plan_task ==
    /\ UNCHANGED pathVars
    /\ UNCHANGED toolVars
    /\ UNCHANGED workerVars
    /\ UNCHANGED validateVars
    /\ UNCHANGED configVars
    /\ UNCHANGED callerVars
    /\ frontend = "tui"
    /\ pc = "plan_task"
    /\ current_attempt' = current_attempt + 1
    /\ IF ~HasHumanMessage(conversation_history)
       THEN \* tui.py:237-240
            /\ log' = Append(log, <<"no_user_input">>)
            /\ input_disabled' = FALSE
            /\ pc' = "idle"
            /\ exit' = "no_user_input"
            /\ UNCHANGED <<relevant_tools, depth>>
       ELSE \E task_type \in TaskTypes :
            \E prologue \in CreatePlanPrologue(ToolList(RelevantTools(task_type))) :
               IF prologue = "raise"
               THEN \* tui.py:267-272
                    /\ log' = Append(log, <<"plan_error">>)
                    /\ input_disabled' = FALSE
                    /\ pc' = "idle"
                    /\ exit' = "plan_error"
                    /\ UNCHANGED <<relevant_tools, depth>>
               ELSE /\ relevant_tools' = RelevantTools(task_type)
                    /\ depth' = 0
                    /\ pc' = "create_plan"
                    /\ UNCHANGED <<log, input_disabled, exit>>
    /\ UNCHANGED <<frontend, conversation_history, feedback, current_plan, pending,
                   objectives, calls>>
    /\ UNCHANGED execVars

ReturnPlan(p) ==
    /\ pending' = p
    /\ pc' = "display_plan"
    /\ depth' = 0

\* supervisor.py:117-133: one Planner request with its validation; a
\* validation or structure error re-enters create_plan one level deeper.
\* At the recursion limit the request itself raises RecursionError inside the
\* try block, which the `except Exception` clause turns into the error plan.
create_plan ==
    /\ UNCHANGED pathVars
    /\ UNCHANGED toolVars
    /\ UNCHANGED workerVars
    /\ UNCHANGED validateVars
    /\ UNCHANGED configVars
    /\ UNCHANGED callerVars
    /\ pc = "create_plan"
    /\ \E out \in (IF depth < RecursionLimit THEN PlannerOutputs
                   ELSE {[kind |-> "Exception", plan |-> EmptyPlan]}) :
          /\ calls' = Append(calls, IF depth = 0 THEN "planner" ELSE "planner_retry")
          /\ IF out.kind = "Exception"
             THEN ReturnPlan(ErrorPlan)
             ELSE IF out.kind = "ValidationError"
             THEN /\ depth' = depth + 1
                  /\ UNCHANGED <<pending, pc>>
             ELSE LET v == _validate_plan(out.plan)
                  IN  IF v.error # None
                      THEN /\ depth' = depth + 1
                           /\ UNCHANGED <<pending, pc>>
                      ELSE ReturnPlan(v.plan)
    /\ UNCHANGED <<frontend, conversation_history, feedback, current_attempt, current_plan,
                   input_disabled, relevant_tools, objectives, log, exit>>
    /\ UNCHANGED execVars

AlwaysAskApproval(p) == "approval"

\* tui.py:278-284, 295: a plan without steps ends the objective, any other
\* plan is put to the user
PcAfterDisplay(p) == IF p.plan = <<>> THEN "idle" ELSE "approval"

\* tui.py:274-295
display_plan ==
    /\ UNCHANGED pathVars
    /\ UNCHANGED toolVars
    /\ UNCHANGED workerVars
    /\ UNCHANGED validateVars
    /\ UNCHANGED configVars
    /\ UNCHANGED callerVars
    /\ frontend = "tui"
    /\ pc = "display_plan"
    /\ current_plan' = pending
    /\ pending' = EmptyPlan
    /\ relevant_tools' = {}
    /\ IF PcAfterDisplay(pending) = "idle"
       THEN /\ log' = Append(log, <<"agent", pending.thought>>)
            /\ conversation_history' = Append(conversation_history, AIMessage(pending.thought))
            /\ input_disabled' = FALSE
            /\ pc' = "idle"
            /\ exit' = "thought"
       ELSE /\ pc' = "approval"
            /\ UNCHANGED <<log, conversation_history, input_disabled, exit>>
    /\ UNCHANGED <<frontend, feedback, current_attempt, depth, objectives, calls>>
    /\ UNCHANGED execVars

\* tui.py:297-312
on_approval_dialog_dismiss ==
    /\ UNCHANGED pathVars
    /\ UNCHANGED toolVars
    /\ UNCHANGED workerVars
    /\ UNCHANGED validateVars
    /\ UNCHANGED configVars
    /\ UNCHANGED callerVars
    /\ frontend = "tui"
    /\ pc = "approval"
    /\ \E approved \in BOOLEAN :
          IF approved
          THEN /\ plan' = current_plan
               /\ gen' = "start"
               /\ i' = 0
               /\ results' = <<>>
               /\ final_result' = NoResult
               /\ invoked' = <<>>
               /\ happened' = <<>>
               /\ pc' = "execute"
               /\ calls' = Append(calls, "execute")
               /\ UNCHANGED <<log, input_disabled, exit>>
          ELSE /\ log' = Append(log, <<"cancelled">>)
               /\ input_disabled' = FALSE
               /\ pc' = "idle"
               /\ exit' = "cancelled"
               /\ UNCHANGED calls
               /\ UNCHANGED execVars
    /\ UNCHANGED <<frontend, conversation_history, feedback, current_attempt, current_plan,
                   relevant_tools, depth, pending, objectives>>

\* agents/verifier.py:63-65: what judgment_llm.invoke can do: return a
\* VerificationResult, return no result at all, or raise
JudgmentOutcomes ==
    { [kind |-> "result", value |-> [is_success |-> TRUE,  feedback |-> <<"completed">>]],
      [kind |-> "result", value |-> [is_success |-> FALSE, feedback |-> <<"diagnosis">>]],
      [kind |-> "None", value |-> None],
      [kind |-> "Exception", value |-> None] }

JudgmentFailureIsSuccess(out) ==
    IF out.kind = "result" THEN out.value
    ELSE [is_success |-> TRUE, feedback |-> <<"verifier_error">>]

\* agents/verifier.py:61-76: the judgment, or the fixed failure feedback when
\* the judgment call raises or the look at result.is_success does
VerificationOf(out) ==
    IF out.kind = "result" THEN out.value
    ELSE [is_success |-> FALSE, feedback |-> <<"verifier_error">>]

\* agents/verifier.py:16-76: what verify_task can return
VerifierOutcomes == {VerificationOf(out) : out \in JudgmentOutcomes}

ReportAfterFailure(attempt) == "report"

\* tui.py:416-431: after a failed verification another planning round is
\* scheduled while attempts are left
PcAfterFailure(attempt) == IF attempt < max_attempts THEN "plan_task" ELSE "idle"

ReplanAfterSuccess(is_success, attempt) ==
    IF attempt < max_attempts THEN "plan_task" ELSE "idle"

\* tui.py:385, 416-431: where execute_and_verify_task goes after the verdict
PcAfterVerification(is_success, attempt) ==
    IF is_success THEN "report" ELSE PcAfterFailure(attempt)

InputStaysDisabled == TRUE

\* tui.py:431  self._set_input_disabled(False) once the attempts are used up
InputDisabledAtMaxAttempts == FALSE

\* tui.py:331-431 once the generator is exhausted: verification and what
\* follows it, up to the Reporter call
verify_task ==
    /\ UNCHANGED pathVars
    /\ UNCHANGED toolVars
    /\ UNCHANGED workerVars
    /\ UNCHANGED validateVars
    /\ UNCHANGED configVars
    /\ UNCHANGED callerVars
    /\ frontend = "tui"
    /\ pc = "execute"
    /\ gen = "returned"
    /\ final_result.status # "none"
    /\ HasHumanMessage(conversation_history)
    /\ \E out \in JudgmentOutcomes : LET verification == VerificationOf(out) IN
          /\ calls' = calls \o (IF out.kind = "result" THEN <<>> ELSE <<"judgment_raised">>)
                             \o <<IF verification.is_success THEN "verifier_ok"
                                                             ELSE "verifier_failed">>
          /\ pc' = PcAfterVerification(verification.is_success, current_attempt)
          /\ IF verification.is_success
             THEN \* tui.py:385-390
                  /\ UNCHANGED <<feedback, conversation_history, log, input_disabled, exit>>
                  /\ UNCHANGED execVars
             ELSE \* tui.py:398-431
                  /\ feedback' = Some(verification.feedback)
                  /\ conversation_history' =
                        Append(conversation_history, AIMessage("summary_and_feedback"))
                  /\ ExecIdle
                  /\ IF PcAfterVerification(FALSE, current_attempt) = "plan_task"
                     THEN /\ log' = Append(log, <<"verifier_failed", verification.feedback>>)
                          /\ UNCHANGED <<input_disabled, exit>>
                     ELSE /\ log' = log \o << <<"verifier_failed", verification.feedback>>,
                                              <<"max_attempts_reached">> >>
                          /\ input_disabled' = InputDisabledAtMaxAttempts
                          /\ exit' = "exhausted"
    /\ UNCHANGED <<frontend, current_attempt, current_plan, relevant_tools, depth, pending,
                   objectives>>

\* tui.py:391-397 with agents/reporter.py create_final_report
create_final_report ==
    /\ UNCHANGED pathVars
    /\ UNCHANGED toolVars
    /\ UNCHANGED workerVars
    /\ UNCHANGED validateVars
    /\ UNCHANGED configVars
    /\ UNCHANGED callerVars
    /\ frontend = "tui"
    /\ pc = "report"
    /\ calls' = Append(calls, "reporter")
    /\ log' = Append(log, <<"agent", <<"report">>>>)
    /\ conversation_history' = Append(conversation_history, AIMessage("report"))
    /\ input_disabled' = FALSE
    /\ pc' = "idle"
    /\ exit' = "success"
    /\ ExecIdle
    /\ UNCHANGED <<frontend, feedback, current_attempt, current_plan, relevant_tools, depth,
                   pending, objectives>>

(***************************************************************************)
(* main.py cli_main / run_agent_cycle                                      *)
(***************************************************************************)
\* main.py:28-46 inside the loop of cli_main (main.py:110-128): the first
\* create_plan call passes `feedback` (None) where create_plan expects the
\* tool list, so create_plan raises before its try block and the exception
\* leaves run_agent_cycle; cli_main prints it and reads the next input
run_agent_cycle ==
    /\ UNCHANGED pathVars
    /\ UNCHANGED toolVars
    /\ UNCHANGED workerVars
    /\ UNCHANGED validateVars
    /\ UNCHANGED configVars
    /\ UNCHANGED callerVars
    /\ frontend = "cli"
    /\ objectives < MaxObjectives
    /\ objectives' = objectives + 1
    /\ conversation_history' = Append(conversation_history, HumanMessage("objective"))
    /\ CreatePlanPrologue(NotAList) = {"raise"}
    /\ calls' = <<>>
    /\ log' = << <<"unexpected_error">> >>
    /\ exit' = "raised"
    /\ UNCHANGED <<frontend, feedback, current_attempt, current_plan, input_disabled, pc,
                   relevant_tools, depth, pending>>
    /\ UNCHANGED execVars

(***************************************************************************)
(* The application: either front end, with the Executor it drives          *)
(***************************************************************************)
Init ==
    /\ frontend \in {"tui", "cli"}
    /\ plan = EmptyPlan
    /\ gen = "idle"
    /\ i = 0
    /\ results = <<>>
    /\ final_result = NoResult
    /\ invoked = <<>>
    /\ happened = <<>>
    /\ conversation_history = <<>>
    /\ feedback = None
    /\ current_attempt = 0
    /\ current_plan = EmptyPlan
    /\ input_disabled = FALSE
    /\ pc = "idle"
    /\ relevant_tools = {}
    /\ depth = 0
    /\ pending = EmptyPlan
    /\ objectives = 0
    /\ calls = <<>>
    /\ log = <<>>
    /\ exit = "none"
    /\ path_call = NoPathCall
    /\ path_result = "none"
    /\ ToolsUnused
    /\ WorkersUnused
    /\ ValidateUnused
    /\ ConfigUnused
    /\ CallerUnused

Next ==
    \/ on_button_pressed
    \/ plan_task
    \/ create_plan
    \/ display_plan
    \/ on_approval_dialog_dismiss
    \/ ExecutePlanBegin
    \/ ExecutePlanStep
    \/ ExecutePlanFinish
    \/ verify_task
    \/ create_final_report
    \/ run_agent_cycle

Spec == Init /\ [][Next]_vars


(***************************************************************************)
(* Properties of the Plan-Execute-Verify-Report loop                       *)
(***************************************************************************)
Count(seq, x) == Cardinality({n \in 1..Len(seq) : seq[n] = x})

Ended == objectives > 0 /\ exit # "none"

\* C6: an objective whose plans were all valid, non-empty and approved and
\* whose verifications all failed ends after exactly 3 planner calls in
\* DONE(failure), with the attempts-exhausted message after the last
\* feedback, and without an exception reaching the caller
C6_ThreeAttemptsThenFailure ==
    ( /\ Ended
      /\ exit \notin {"success", "thought", "cancelled", "plan_error", "no_user_input"}
      /\ Count(calls, "planner_retry") = 0 )
    =>
    ( /\ exit = "exhausted"
      /\ Count(calls, "planner") = max_attempts
      /\ Len(log) >= 2
      /\ log[Len(log)] = <<"max_attempts_reached">>
      /\ log[Len(log) - 1][1] = "verifier_failed" )

\* C7: when the first verification of an objective succeeds and the plan was
\* valid at the first request, the calls made are exactly planner, execution,
\* verifier, reporter, in this order, and then the loop stops
C7_SuccessAtFirstAttempt ==
    ( /\ Count(calls, "verifier_ok") > 0
      /\ Count(calls, "verifier_failed") = 0
      /\ Count(calls, "planner_retry") = 0 )
    =>
    \/ /\ calls = <<"planner", "execute", "verifier_ok">>
       /\ pc = "report"
    \/ /\ calls = <<"planner", "execute", "verifier_ok", "reporter">>
       /\ pc = "idle"
       /\ gen = "idle"
       /\ exit = "success"
       /\ ~input_disabled

C7_Witness ==
    /\ frontend = "tui"
    /\ exit = "success"
    /\ calls = <<"planner", "execute", "verifier_ok", "reporter">>
    /\ current_attempt = 1

\* the largest value "a fixed small cap" on inner re-requests could stand for
SmallRetryCap == 3

\* C8: within one create_plan call the re-requests caused by validation or
\* output-structure errors never exceed a fixed small cap
C8_InnerRetriesCapped == depth <= SmallRetryCap


\* C15: a cancellation at the approval dialog removes the objective's message
\* from the history, shows the cancellation notice, and makes no execution,
\* Verifier or Reporter call
C15_CancelRemovesObjective ==
    [][ (pc = "approval" /\ exit' = "cancelled") =>
          /\ Count(conversation_history', HumanMessage("objective"))
                = Count(conversation_history, HumanMessage("objective")) - 1
          /\ log'[Len(log')] = <<"cancelled">>
          /\ calls' = calls
          /\ pc' = "idle"
          /\ gen' = gen ]_vars

\* C16: a plan without steps is never put to approval; it ends the objective
\* at once: the thought is shown and appended to the history (which only a
\* later reset empties), the input is enabled again, and the last call made
\* for the objective is the Planner request that gave the plan
C16_EmptyPlanEndsObjective ==
    /\ pc \in {"approval", "execute", "report"} => current_plan.plan # <<>>
    /\ exit = "thought" =>
          /\ pc = "idle"
          /\ gen = "idle"
          /\ ~input_disabled
          /\ current_plan.plan = <<>>
          /\ calls # <<>>
          /\ calls[Len(calls)] \in {"planner", "planner_retry"}
          /\ current_attempt = 1 => \A n \in 1..Len(calls) : calls[n] \in {"planner", "planner_retry"}
          /\ log[Len(log)] = <<"agent", current_plan.thought>>
          /\ \/ conversation_history = <<>>
             \/ conversation_history[Len(conversation_history)]
                   = AIMessage(current_plan.thought)

C16_Witness ==
    /\ frontend = "tui"
    /\ exit = "thought"
    /\ calls = <<"planner">>
    /\ current_plan = EmptyPlan
    /\ conversation_history = <<HumanMessage("objective"), AIMessage(<<"thought">>)>>

\* messages that carry the summary of an execution pass
IsSummary(msg) == msg \in {AIMessage("summary_and_feedback"), AIMessage("summary")}

SummaryCount(history) == Cardinality({n \in 1..Len(history) : IsSummary(history[n])})

\* C17: when an objective has reached DONE(success) the history holds a
\* summary for every execution pass made for it, the successful one included
C17_SummaryAfterEveryPass ==
    ( /\ exit = "success"
      /\ conversation_history # <<>>
      /\ conversation_history[Len(conversation_history)] = AIMessage("report") )
    => SummaryCount(conversation_history) >= Count(calls, "execute")

\* C18: the Reporter is called only directly after a successful verification
\* and after every one, at most once per objective; at DONE(success) its text
\* is the last entry of the history (which only a later reset empties)
C18_ReporterExactlyOnSuccess ==
    /\ Count(calls, "reporter") <= 1
    /\ \A n \in 1..Len(calls) :
          calls[n] = "reporter" => (n > 1 /\ calls[n - 1] = "verifier_ok")
    /\ \A n \in 1..Len(calls) :
          calls[n] = "verifier_ok" =>
             \/ n = Len(calls) /\ pc = "report"
             \/ n = Len(calls) - 1 /\ calls[n + 1] = "reporter"
    /\ exit = "success" =>
          /\ Count(calls, "reporter") = 1
          /\ ~input_disabled
          /\ \/ conversation_history = <<>>
             \/ conversation_history[Len(conversation_history)] = AIMessage("report")

\* the second attempt succeeded after a failed first one
C18_Witness ==
    /\ frontend = "tui"
    /\ exit = "success"
    /\ current_attempt = 2
    /\ Count(calls, "verifier_failed") = 1
    /\ calls[Len(calls)] = "reporter"
    /\ conversation_history[Len(conversation_history)] = AIMessage("report")


(***************************************************************************)
(* Progress of the loop.  The worker threads run (textual runs a started   *)
(* thread worker and the callbacks handed to call_from_thread), every      *)
(* Planner, Verifier, Reporter and tool call returns, and the user answers *)
(* the approval dialog.  What the user types next is not constrained.      *)
(***************************************************************************)
Fairness ==
    /\ WF_vars(plan_task)
    /\ WF_vars(create_plan)
    /\ WF_vars(display_plan)
    /\ WF_vars(on_approval_dialog_dismiss)
    /\ WF_vars(ExecutePlanBegin)
    /\ WF_vars(ExecutePlanStep)
    /\ WF_vars(ExecutePlanFinish)
    /\ WF_vars(verify_task)
    /\ WF_vars(create_final_report)

SpecLive == Init /\ [][Next]_vars /\ Fairness

\* the objective has ended: a final message is on the screen, nothing is
\* running and the input is enabled
Terminal ==
    /\ pc = "idle"
    /\ ~input_disabled
    /\ gen = "idle"
    /\ exit \in {"success", "thought", "exhausted", "cancelled", "plan_error", "no_user_input"}
    /\ log # <<>>
    /\ log[Len(log)][1] \in {"agent", "max_attempts_reached", "cancelled", "plan_error",
                             "no_user_input"}

\* C19: every objective submitted to the TUI loop, whose input is disabled
\* while it is worked on, eventually reaches a terminal state with a final
\* message and the input enabled; the TUI loop never ends with an exception
C19_EveryObjectiveEnds ==
    /\ input_disabled ~> Terminal
    /\ [](frontend = "tui" => exit # "raised")

\* the third attempt failed too and the loop has stopped
C19_Witness ==
    /\ Terminal
    /\ exit = "exhausted"
    /\ current_attempt = max_attempts
    /\ Count(calls, "verifier_failed") = max_attempts

(***************************************************************************)
(* utils/path_utils.py: the path guard.  A path is a sequence of           *)
(* components; a component is a sequence of character chunks, so that one  *)
(* name can be a proper string prefix of another ("proj", "proj2").        *)
(***************************************************************************)
Dot == <<".">>

DotDot == <<"..">>

\* config.py:60  an absolute directory, without a trailing separator
ROOT_DIRECTORY == << <<"home">>, <<"proj">> >>

\* component names the path arguments are built from
PathNames ==
    { Dot, DotDot, <<".env">>, <<".agentignore">>, <<"agent.env">>, <<"env">>,
      <<"src">>, <<"home">>, <<"proj">>, <<"proj", "2">> }

\* lines an .agentignore file is built from: a comment, a pattern naming a
\* file or directory, a negated pattern
IgnoreLines ==
    { [kind |-> "comment", include |-> TRUE, parts |-> <<>>],
      [kind |-> "name", include |-> TRUE, parts |-> << <<"src">> >>],
      [kind |-> "name", include |-> FALSE, parts |-> << <<".env">> >>],
      [kind |-> "name", include |-> FALSE, parts |-> << <<".agentignore">> >>],
      [kind |-> "name", include |-> FALSE, parts |-> << <<"agent.env">> >>] }

NamePattern(name) == [kind |-> "name", include |-> TRUE, parts |-> << name >>]

\* path_utils.py:21-23  '.env', '.agentignore', 'env/agent.env', '**/env',
\* '.git', 'agent_log'
DefaultIgnorePatterns ==
    << NamePattern(<<".env">>), NamePattern(<<".agentignore">>),
       [kind |-> "anchored", include |-> TRUE, parts |-> << <<"env">>, <<"agent.env">> >>],
       NamePattern(<<"env">>), NamePattern(<<".git">>), NamePattern(<<"agent_log">>) >>

\* path_utils.py:14-24  the lines of the file, then the built-in patterns
_load_agentignore(ignore_file) == ignore_file \o DefaultIgnorePatterns

\* gitwildmatch: a pattern without a separator matches a file or directory
\* of that name at any depth and everything below it; a pattern with a
\* separator in the middle is anchored at the root
PatternMatches(pat, rel) ==
    CASE pat.kind = "name" -> \E n \in 1..Len(rel) : rel[n] = pat.parts[1]
      [] pat.kind = "anchored" ->
            Len(rel) >= Len(pat.parts) /\ SubSeq(rel, 1, Len(pat.parts)) = pat.parts
      [] OTHER -> FALSE

RECURSIVE MatchFrom(_, _, _, _)
\* pathspec match_file: the last pattern that matches decides
MatchFrom(patterns, n, rel, matched) ==
    IF n > Len(patterns) THEN matched
    ELSE MatchFrom(patterns, n + 1, rel,
                   IF PatternMatches(patterns[n], rel) THEN patterns[n].include ELSE matched)

match_file(patterns, rel) == MatchFrom(patterns, 1, rel, FALSE)

RECURSIVE normpath(_, _)
\* os.path.normpath on an absolute path: "." is dropped, ".." removes the
\* component before it and is dropped at the top
normpath(stack, rest) ==
    IF rest = <<>> THEN stack
    ELSE LET c == Head(rest)
         IN  IF c = Dot THEN normpath(stack, Tail(rest))
             ELSE IF c = DotDot
                  THEN normpath(IF stack = <<>> THEN <<>>
                                ELSE SubSeq(stack, 1, Len(stack) - 1), Tail(rest))
                  ELSE normpath(Append(stack, c), Tail(rest))

\* path_utils.py:32  os.path.abspath(os.path.join(ROOT_DIRECTORY, path))
full_path(path, absolute) ==
    normpath(<<>>, IF absolute THEN path ELSE ROOT_DIRECTORY \o path)

IsPrefix(a, b) == Len(a) <= Len(b) /\ SubSeq(b, 1, Len(a)) = a

InsideRoot(full, root) == IsPrefix(root, full)

\* path_utils.py:34  str.startswith on the two path strings: the leading
\* components are equal and the component at the root's depth starts with
\* the characters of the root's last component
startswith(full, root) ==
    /\ Len(full) >= Len(root)
    /\ \A n \in 1..(Len(root) - 1) : full[n] = root[n]
    /\ IsPrefix(root[Len(root)], full[Len(root)])

RECURSIVE CommonLen(_, _)
CommonLen(a, b) ==
    IF a = <<>> \/ b = <<>> \/ Head(a) # Head(b) THEN 0
    ELSE 1 + CommonLen(Tail(a), Tail(b))

\* os.path.relpath(full, start)
relpath(full, start) ==
    LET c    == CommonLen(full, start)
        ups  == [n \in 1..(Len(start) - c) |-> DotDot]
        rest == SubSeq(full, c + 1, Len(full))
    IN  IF ups \o rest = <<>> THEN << Dot >> ELSE ups \o rest

\* os.path.basename
basename(full) == IF full = <<>> THEN <<>> ELSE full[Len(full)]

ProtectedNamesFromIgnoreList == { <<".env">>, <<".agentignore">> }

\* path_utils.py:41-43
ProtectedNames == { <<".env">>, <<".agentignore">>, <<"agent.env">> }

\* path_utils.py:29-47
is_path_allowed(call) ==
    LET full == full_path(call.path, call.absolute)
    IN  IF ~startswith(full, ROOT_DIRECTORY) THEN FALSE
        ELSE IF match_file(_load_agentignore(call.ignore_file),
                           relpath(full, ROOT_DIRECTORY)) THEN FALSE
        ELSE IF ~call.for_read /\ basename(full) \in ProtectedNames THEN FALSE
        ELSE TRUE

PathCalls ==
    [ path : SeqsUpTo(PathNames, MaxPathLen), absolute : BOOLEAN, for_read : BOOLEAN,
      ignore_file : SeqsUpTo(IgnoreLines, MaxIgnoreLines) ]

\* a tool asks the guard about one path
IsPathAllowedCall ==
    /\ path_result = "none"
    /\ path_result' = IF is_path_allowed(path_call) THEN "allowed" ELSE "denied"
    /\ UNCHANGED path_call
    /\ UNCHANGED execVars
    /\ UNCHANGED loopVars
    /\ UNCHANGED toolVars
    /\ UNCHANGED workerVars
    /\ UNCHANGED validateVars
    /\ UNCHANGED configVars
    /\ UNCHANGED callerVars

InitPath ==
    /\ path_call \in PathCalls
    /\ path_result = "none"
    /\ plan = EmptyPlan
    /\ gen = "idle"
    /\ i = 0
    /\ results = <<>>
    /\ final_result = NoResult
    /\ invoked = <<>>
    /\ happened = <<>>
    /\ frontend = "none"
    /\ conversation_history = <<>>
    /\ feedback = None
    /\ current_attempt = 0
    /\ current_plan = EmptyPlan
    /\ input_disabled = FALSE
    /\ pc = "idle"
    /\ relevant_tools = {}
    /\ depth = 0
    /\ pending = EmptyPlan
    /\ objectives = 0
    /\ calls = <<>>
    /\ log = <<>>
    /\ exit = "none"
    /\ ToolsUnused
    /\ WorkersUnused
    /\ ValidateUnused
    /\ ConfigUnused
    /\ CallerUnused

NextPath == IsPathAllowedCall

SpecPath == InitPath /\ [][NextPath]_vars

(***************************************************************************)
(* Properties of the path guard                                            *)
(***************************************************************************)
\* C9: a path whose resolved location is neither the project root nor inside
\* it is denied, for read and for write
C9_OutsideRootDenied ==
    ( /\ path_result # "none"
      /\ ~InsideRoot(full_path(path_call.path, path_call.absolute), ROOT_DIRECTORY) )
    => path_result = "denied"

\* C10: whatever the ignore file holds, a write to a path whose final
\* component is .env, .agentignore or agent.env is denied
C10_ProtectedNamesNotWritable ==
    ( /\ path_result # "none"
      /\ ~path_call.for_read
      /\ path_call.path # <<>>
      /\ path_call.path[Len(path_call.path)]
            \in { <<".env">>, <<".agentignore">>, <<"agent.env">> } )
    => path_result = "denied"

C10_Witness ==
    /\ path_result = "denied"
    /\ ~path_call.for_read
    /\ ~path_call.absolute
    /\ path_call.path = << <<"src">>, <<"agent.env">> >>
    /\ path_call.ignore_file = << [kind |-> "name", include |-> FALSE,
                                   parts |-> << <<"agent.env">> >>] >>

(***************************************************************************)
(* tools/: the tools that change files, and _backup_file_if_needed.        *)
(* Every path of ToolPaths is a regular, readable text file or is absent.  *)
(* A returned string is a tuple that starts with the string's literal      *)
(* beginning, so that str.startswith("Error:") is a test of that element.  *)
(***************************************************************************)
\* config.py:99-103
CODE_FILE_EXTENSIONS ==
    { ".py", ".bat", ".sh", ".js", ".ts", ".jsx", ".tsx", ".html", ".css", ".scss",
      ".json", ".yml", ".yaml", ".toml", ".md", ".txt", "Dockerfile" }

\* os.path.splitext on a file name: <<root, extension>>; a name of one chunk
\* (no dot, or only a leading dot) has the empty extension
splitext(file_name) ==
    IF Len(file_name) > 1
    THEN <<SubSeq(file_name, 1, Len(file_name) - 1), file_name[Len(file_name)]>>
    ELSE <<file_name, "">>

TrackableByExtension(file_name) == splitext(file_name)[2] \in CODE_FILE_EXTENSIONS

\* safe_code_editing_tools.py:19-21
\* extension in CODE_FILE_EXTENSIONS or file_name in CODE_FILE_EXTENSIONS
Trackable(file_name) ==
    \/ splitext(file_name)[2] \in CODE_FILE_EXTENSIONS
    \/ Len(file_name) = 1 /\ file_name[1] \in CODE_FILE_EXTENSIONS

_backup_keep_first(path, files, backups, copy_ok) ==
    LET full          == full_path(path, FALSE)
        relative_path == relpath(full, ROOT_DIRECTORY)
    IN  IF files[path] # None /\ Trackable(basename(full))
        THEN IF copy_ok
             THEN [msg     |-> <<"Backup created at: ", relative_path>>,
                   backups |-> IF backups[relative_path] = None
                               THEN [backups EXCEPT ![relative_path] = files[path]]
                               ELSE backups]
             ELSE [msg |-> <<"Error creating backup: ">>, backups |-> backups]
        ELSE [msg |-> <<"">>, backups |-> backups]

\* safe_code_editing_tools.py:17-30 (tools/file_tools.py:17-34 is the same
\* code with other message texts): the message returned and the backup
\* directory afterwards; copy_ok tells whether makedirs and copy2 succeeded
_backup_file_if_needed(path, files, backups, copy_ok) ==
    LET full          == full_path(path, FALSE)
        relative_path == relpath(full, ROOT_DIRECTORY)
    IN  IF files[path] # None /\ Trackable(basename(full))
        THEN IF copy_ok
             THEN [msg     |-> <<"Backup created at: ", relative_path>>,
                   backups |-> [backups EXCEPT ![relative_path] = files[path]]]
             ELSE [msg |-> <<"Error creating backup: ">>, backups |-> backups]
        ELSE [msg |-> <<"">>, backups |-> backups]

\* the tools of all_tools that write, append to or delete a file, as modelled
WriteTools ==
    { "fs_write_file", "fs_append_to_file", "fs_delete_path", "safe_replace_string",
      "ai_read_and_apply_changes" }

\* what a call looked at can be: a tool, or _backup_file_if_needed itself
ToolOps == WriteTools \cup {"_backup_file_if_needed"}

\* the content argument of fs_write_file and fs_append_to_file
ContentArgs(name) ==
    IF name \in {"fs_write_file", "fs_append_to_file"} THEN {<<"b">>} ELSE {<<>>}

\* where each call starts
FirstStep(name) ==
    CASE name \in {"fs_write_file", "fs_append_to_file"} -> "write"
      [] name = "fs_delete_path" -> "delete"
      [] name = "_backup_file_if_needed" -> "backup"
      [] OTHER -> "guard"

\* str.startswith("Error:")
StartsWithError(str) == str[1] = "Error:"

\* file_system_tools.py:77-88 read_file on a readable text file or a missing one
read_file(files, path) ==
    IF files[path] # None THEN files[path][1] ELSE <<"Error reading file ">>

\* what content.replace(old_string, new_string) and the LLM's rewriting can
\* give: the same text, or another one
Rewritten(content) == {content, Append(content, "r")}

\* a call starts
ToolBegin ==
    /\ tool_pc \in {"idle", "done"}
    /\ tool_calls < MaxToolCalls
    /\ \E name \in ToolOps : \E file_path \in ToolPaths : \E content \in ContentArgs(name) :
          /\ tool_call' = [name |-> name, file_path |-> file_path, content |-> content,
                           fs0 |-> fs, backup0 |-> backup_dir]
          /\ tool_pc' = FirstStep(name)
    /\ tool_calls' = tool_calls + 1
    /\ backup_msg' = None
    /\ new_content' = None
    /\ tool_result' = None
    /\ tool_trace' = <<>>
    /\ path_result' = "none"
    /\ UNCHANGED <<fs, backup_dir, path_call>>
    /\ UNCHANGED execVars
    /\ UNCHANGED loopVars
    /\ UNCHANGED workerVars
    /\ UNCHANGED validateVars
    /\ UNCHANGED configVars
    /\ UNCHANGED callerVars

\* safe_code_editing_tools.py:66-67, ai_assisted_coding_tools.py:36-37
ToolGuard ==
    /\ tool_pc = "guard"
    /\ LET call == [path |-> tool_call.file_path, absolute |-> FALSE, for_read |-> FALSE,
                    ignore_file |-> path_call.ignore_file]
       IN  /\ path_call' = call
           /\ IF is_path_allowed(call)
              THEN /\ path_result' = "allowed"
                   /\ tool_pc' = "read"
                   /\ tool_result' = None
                   /\ tool_trace' = Append(tool_trace, "allowed")
              ELSE /\ path_result' = "denied"
                   /\ tool_pc' = "done"
                   /\ tool_result' = <<"Error:", "write access denied">>
                   /\ tool_trace' = Append(tool_trace, "denied")
    /\ UNCHANGED <<fs, backup_dir, tool_call, backup_msg, new_content, tool_calls>>
    /\ UNCHANGED execVars
    /\ UNCHANGED loopVars
    /\ UNCHANGED workerVars
    /\ UNCHANGED validateVars
    /\ UNCHANGED configVars
    /\ UNCHANGED callerVars

\* safe_code_editing_tools.py:71-75 and 78; ai_assisted_coding_tools.py:40-46
ToolRead ==
    /\ tool_pc = "read"
    /\ LET path == tool_call.file_path
       IN  IF tool_call.name = "safe_replace_string"
           THEN LET content == read_file(fs, path)
                IN  IF StartsWithError(content)
                    THEN /\ tool_result' = content
                         /\ tool_pc' = "done"
                         /\ UNCHANGED new_content
                    ELSE \E found \in BOOLEAN :
                            IF ~found
                            THEN /\ tool_result' = <<"Error:", "old string not found">>
                                 /\ tool_pc' = "done"
                                 /\ UNCHANGED new_content
                            ELSE \E replaced \in Rewritten(content) :
                                    /\ new_content' = Some(replaced)
                                    /\ tool_pc' = "backup"
                                    /\ UNCHANGED tool_result
           ELSE IF fs[path] = None
                THEN \* path_exists is false
                     /\ tool_result' = <<"Error:", "file not found">>
                     /\ tool_pc' = "done"
                     /\ UNCHANGED new_content
                ELSE IF StartsWithError(read_file(fs, path))
                THEN /\ tool_result' = <<"Error reading file ">>
                     /\ tool_pc' = "done"
                     /\ UNCHANGED new_content
                ELSE /\ tool_pc' = "backup"
                     /\ UNCHANGED <<tool_result, new_content>>
    /\ tool_trace' = Append(tool_trace, "read")
    /\ UNCHANGED <<fs, backup_dir, tool_call, backup_msg, tool_calls>>
    /\ UNCHANGED execVars
    /\ UNCHANGED loopVars
    /\ UNCHANGED workerVars
    /\ UNCHANGED validateVars
    /\ UNCHANGED configVars
    /\ UNCHANGED callerVars
    /\ UNCHANGED pathVars

BackupFailureBlocksWrite(name, msg) ==
    IF name = "_backup_file_if_needed" \/ msg[1] = "Error creating backup: " THEN "done"
    ELSE IF name = "ai_read_and_apply_changes" THEN "llm"
    ELSE "write"

\* what follows the backup: safe_code_editing_tools.py:77-80 goes on to the
\* write, ai_assisted_coding_tools.py:48-61 to the LLM request, whatever the
\* message; a direct call returns the message
AfterBackup(name, msg) ==
    IF name = "_backup_file_if_needed" THEN "done"
    ELSE IF name = "ai_read_and_apply_changes" THEN "llm"
    ELSE "write"

\* the call of _backup_file_if_needed (safe_code_editing_tools.py:77,
\* ai_assisted_coding_tools.py:48, or a direct call)
ToolBackup ==
    /\ tool_pc = "backup"
    /\ \E copy_ok \in BOOLEAN :
          LET b == _backup_file_if_needed(tool_call.file_path, fs, backup_dir, copy_ok)
          IN  /\ backup_dir' = b.backups
              /\ backup_msg' = b.msg
              /\ tool_trace' = Append(tool_trace, b.msg[1])
              /\ tool_pc' = AfterBackup(tool_call.name, b.msg)
              /\ tool_result' = IF AfterBackup(tool_call.name, b.msg) = "done" THEN b.msg
                                ELSE None
    /\ UNCHANGED <<fs, tool_call, new_content, tool_calls>>
    /\ UNCHANGED execVars
    /\ UNCHANGED loopVars
    /\ UNCHANGED workerVars
    /\ UNCHANGED validateVars
    /\ UNCHANGED configVars
    /\ UNCHANGED callerVars
    /\ UNCHANGED pathVars

\* ai_assisted_coding_tools.py:50-69 and 80-81
ToolLlm ==
    /\ tool_pc = "llm"
    /\ \E out \in {"ok", "raise"} :
          IF out = "raise"
          THEN /\ tool_result' = <<"An unexpected error occurred: ">>
               /\ tool_pc' = "done"
               /\ tool_trace' = Append(tool_trace, "llm raised")
               /\ UNCHANGED new_content
          ELSE \E modified_content \in Rewritten(read_file(fs, tool_call.file_path)) :
                  /\ new_content' = Some(modified_content)
                  /\ tool_pc' = "write"
                  /\ tool_trace' = Append(tool_trace, "llm")
                  /\ UNCHANGED tool_result
    /\ UNCHANGED <<fs, backup_dir, tool_call, backup_msg, tool_calls>>
    /\ UNCHANGED execVars
    /\ UNCHANGED loopVars
    /\ UNCHANGED workerVars
    /\ UNCHANGED validateVars
    /\ UNCHANGED configVars
    /\ UNCHANGED callerVars
    /\ UNCHANGED pathVars

\* the text open(full_path, 'w' or 'a') and f.write leave in the file
Written(name, old, content, prepared) ==
    CASE name = "fs_write_file" -> content
      [] name = "fs_append_to_file" -> (IF old = None THEN <<>> ELSE old[1]) \o content
      [] OTHER -> prepared[1]

\* file_system_tools.py:98-100, 110-112: what write_file / append_to_file return
WriteResult(name, ok) ==
    IF ok THEN <<"Successfully ">> ELSE <<"Error writing to file ">>

\* what the tool returns after its write: file_system_tools.py:98-100 and
\* 110-112 as they are; safe_code_editing_tools.py:82-85 and
\* ai_assisted_coding_tools.py:72-78 test write_result.startswith("Error:")
ResultAfterWrite(name, write_result, msg) ==
    IF name \in {"fs_write_file", "fs_append_to_file"} THEN write_result
    ELSE IF StartsWithError(write_result) THEN <<"Error writing file ", write_result>>
    ELSE <<"Successfully ", msg>>

\* file_system_tools.py:90-112, reached directly or through write_file.run
\* (safe_code_editing_tools.py:80, ai_assisted_coding_tools.py:71)
ToolWrite ==
    /\ tool_pc = "write"
    /\ \E ok \in BOOLEAN :
          LET name == tool_call.name
              path == tool_call.file_path
          IN  /\ fs' = IF ok
                       THEN [fs EXCEPT ![path] =
                                Some(Written(name, fs[path], tool_call.content, new_content))]
                       ELSE fs
              /\ tool_trace' = Append(tool_trace, IF ok THEN "written" ELSE "write failed")
              /\ tool_result' = ResultAfterWrite(name, WriteResult(name, ok), backup_msg)
    /\ tool_pc' = "done"
    /\ UNCHANGED <<backup_dir, tool_call, backup_msg, new_content, tool_calls>>
    /\ UNCHANGED execVars
    /\ UNCHANGED loopVars
    /\ UNCHANGED workerVars
    /\ UNCHANGED validateVars
    /\ UNCHANGED configVars
    /\ UNCHANGED callerVars
    /\ UNCHANGED pathVars

\* file_system_tools.py:135-151
ToolDelete ==
    /\ tool_pc = "delete"
    /\ LET path == tool_call.file_path
       IN  IF fs[path] = None
           THEN /\ tool_result' = <<"Error:", "path not found">>
                /\ tool_trace' = Append(tool_trace, "not found")
                /\ UNCHANGED fs
           ELSE \E ok \in BOOLEAN :
                   IF ok
                   THEN /\ fs' = [fs EXCEPT ![path] = None]
                        /\ tool_result' = <<"Successfully deleted file ">>
                        /\ tool_trace' = Append(tool_trace, "deleted")
                   ELSE /\ tool_result' = <<"Error deleting path ">>
                        /\ tool_trace' = Append(tool_trace, "delete failed")
                        /\ UNCHANGED fs
    /\ tool_pc' = "done"
    /\ UNCHANGED <<backup_dir, tool_call, backup_msg, new_content, tool_calls>>
    /\ UNCHANGED execVars
    /\ UNCHANGED loopVars
    /\ UNCHANGED workerVars
    /\ UNCHANGED validateVars
    /\ UNCHANGED configVars
    /\ UNCHANGED callerVars
    /\ UNCHANGED pathVars

\* a project whose files exist or not, an empty session backup directory
\* (config.py:64-96) and the ignore file read at import (path_utils.py:27)
InitTools ==
    /\ fs \in [ToolPaths -> {None, Some(<<"a">>)}]
    /\ backup_dir = NoFiles
    /\ path_call \in {[NoPathCall EXCEPT !.ignore_file = ignore_file] :
                        ignore_file \in SeqsUpTo(IgnoreLines, MaxIgnoreLines)}
    /\ path_result = "none"
    /\ tool_call = NoToolCall
    /\ tool_pc = "idle"
    /\ backup_msg = None
    /\ new_content = None
    /\ tool_result = None
    /\ tool_trace = <<>>
    /\ tool_calls = 0
    /\ plan = EmptyPlan
    /\ gen = "idle"
    /\ i = 0
    /\ results = <<>>
    /\ final_result = NoResult
    /\ invoked = <<>>
    /\ happened = <<>>
    /\ frontend = "none"
    /\ conversation_history = <<>>
    /\ feedback = None
    /\ current_attempt = 0
    /\ current_plan = EmptyPlan
    /\ input_disabled = FALSE
    /\ pc = "idle"
    /\ relevant_tools = {}
    /\ depth = 0
    /\ pending = EmptyPlan
    /\ objectives = 0
    /\ calls = <<>>
    /\ log = <<>>
    /\ exit = "none"
    /\ WorkersUnused
    /\ ValidateUnused
    /\ ConfigUnused
    /\ CallerUnused

NextTools ==
    \/ ToolBegin
    \/ ToolGuard
    \/ ToolRead
    \/ ToolBackup
    \/ ToolLlm
    \/ ToolWrite
    \/ ToolDelete

SpecTools == InitTools /\ [][NextTools]_vars

(***************************************************************************)
(* Properties of the tools                                                 *)
(***************************************************************************)
\* the guard's answer for a write to the path of the call looked at
WriteAllowed ==
    is_path_allowed([path |-> tool_call.file_path, absolute |-> FALSE, for_read |-> FALSE,
                     ignore_file |-> path_call.ignore_file])

\* the extension of the path's name, or its whole name when it has none, is
\* in the trackable set
TrackablePath(path) == path[Len(path)][Len(path[Len(path)])] \in CODE_FILE_EXTENSIONS

\* C11: a tool that writes, appends to or deletes a path the guard denies for
\* writing returns the access-denied error and leaves every file as it was
C11_ChangesOnlyWhereAllowed ==
    ( /\ tool_pc = "done"
      /\ tool_call.name \in WriteTools
      /\ ~WriteAllowed )
    => ( /\ fs = tool_call.fs0
         /\ tool_result = <<"Error:", "write access denied">> )

\* C12: when a tool changes the content of an existing trackable file, the
\* backup directory holds the file's content of before the change already
\* (a backup whose copy failed, reported by the warning, apart)
C12_BackupBeforeChange ==
    [][ \A path \in ToolPaths :
          ( /\ tool_call.name \in WriteTools
            /\ fs[path] # None
            /\ fs'[path] # fs[path]
            /\ TrackablePath(path)
            /\ backup_msg # <<"Error creating backup: ">> )
          => backup_dir[path] = fs[path] ]_vars

\* C13: a call of _backup_file_if_needed leaves the project files as they
\* are; for an existing trackable file it puts the file's content of the time
\* of the call at the same relative path of the backup directory, and nothing
\* else changes there (or, when the copy fails, it returns the warning and
\* the backup directory stays as it was); for a missing or untracked file the
\* backup directory stays as it was and the empty string is returned
C13_BackupCopiesCurrentContent ==
    [][ tool_pc = "backup" =>
          LET path == tool_call.file_path
          IN  /\ fs' = fs
              /\ IF fs[path] # None /\ TrackablePath(path)
                 THEN \/ /\ backup_msg'[1] = "Backup created at: "
                         /\ backup_dir'[path] = fs[path]
                         /\ \A other \in ToolPaths \ {path} :
                               backup_dir'[other] = backup_dir[other]
                      \/ /\ backup_msg' = <<"Error creating backup: ">>
                         /\ backup_dir' = backup_dir
                 ELSE /\ backup_msg' = <<"">>
                      /\ backup_dir' = backup_dir ]_vars

\* a second call has copied the text the first call wrote, replacing nothing
\* else, and the direct call on the extensionless Dockerfile made a backup
C13_Witness ==
    /\ tool_pc = "done"
    /\ tool_calls = 2
    /\ tool_call.name = "_backup_file_if_needed"
    /\ tool_call.file_path = << <<"Dockerfile">> >>
    /\ tool_call.fs0[tool_call.file_path] = Some(<<"b">>)
    /\ backup_dir[tool_call.file_path] = Some(<<"b">>)
    /\ tool_result[1] = "Backup created at: "
    /\ fs = tool_call.fs0

\* C14: when the copy into the backup directory fails, the function returns
\* the warning, the tool goes on to its write (for the AI tool: unless the
\* LLM request raises first), and a write that succeeded stays in the file
\* and is reported as a success carrying the warning
C14_BackupIsBestEffort ==
    ( /\ backup_msg = <<"Error creating backup: ">>
      /\ tool_call.name \in {"safe_replace_string", "ai_read_and_apply_changes"} )
    => ( /\ tool_pc \in {"write", "llm", "done"}
         /\ tool_pc = "done" =>
               tool_trace[Len(tool_trace)] \in {"written", "write failed", "llm raised"}
         /\ (tool_pc = "done" /\ tool_trace[Len(tool_trace)] = "written") =>
               /\ fs[tool_call.file_path] = new_content
               /\ tool_result = <<"Successfully ", backup_msg>> )

C14_Witness ==
    /\ tool_pc = "done"
    /\ tool_call.name = "safe_replace_string"
    /\ backup_msg = <<"Error creating backup: ">>
    /\ tool_trace[Len(tool_trace)] = "written"
    /\ fs[tool_call.file_path] = Some(<<"a", "r">>)
    /\ tool_call.fs0[tool_call.file_path] = Some(<<"a">>)
    /\ backup_dir[tool_call.file_path] = None

(***************************************************************************)
(* tui.py AgentApp with its thread workers and the interrupt dialog.       *)
(* run_worker(..., thread=True) starts a thread; Worker.cancel() marks the *)
(* worker as cancelled, and as neither plan_task nor                       *)
(* execute_and_verify_task looks at that mark, the thread runs on.         *)
(* Messages and feedback carry the objective of the worker (or of the      *)
(* submission) that wrote them.                                            *)
(***************************************************************************)
\* a plan with one step
OneStepPlan ==
    [thought |-> <<"thought">>,
     plan |-> <<[tool_name |-> "ai_read_and_apply_changes",
                 arguments |-> [k \in {"file_path", "instruction"} |-> ArgValue[k]]]>>]

\* a plan with two steps
TwoStepPlan ==
    [thought |-> <<"thought">>, plan |-> OneStepPlan.plan \o OneStepPlan.plan]

\* what create_plan hands to plan_task (tui.py:264-271)
WorkerPlannerOutputs ==
    {[kind |-> "plan", plan |-> OneStepPlan],
     [kind |-> "plan", plan |-> TwoStepPlan],
     [kind |-> "plan", plan |-> EmptyPlan],
     [kind |-> "Exception", plan |-> EmptyPlan]}

\* a thread worker: the objective it was started for, the point its function
\* has reached, the plan it holds, the steps of it that have returned, its
\* Worker.state, and the number of objectives submitted when it was started
Worker(obj, at, p, since) ==
    [obj |-> obj, at |-> at, plan |-> p, i |-> 0, state |-> "RUNNING", since |-> since]

\* tui.py:214, 305-307, 421-423 run_worker(..., exclusive=True, thread=True):
\* the workers there are get cancelled, which is a mark on them, and the new
\* one is started
run_worker(ws, w) == {[x EXCEPT !.state = "CANCELLED"] : x \in ws} \cup {w}

\* what the thread steps leave alone
ThreadsFrame ==
    /\ UNCHANGED <<frontend, pc, relevant_tools, depth, pending, calls, log, exit>>
    /\ UNCHANGED execVars
    /\ UNCHANGED pathVars
    /\ UNCHANGED toolVars
    /\ UNCHANGED validateVars
    /\ UNCHANGED configVars
    /\ UNCHANGED callerVars

\* tui.py:158-214: the submit button, with "reset" or with an objective
Threads_on_button_pressed ==
    /\ ~input_disabled
    /\ screens = <<>>
    /\ \E user_input \in {"reset", "objective"} :
          IF user_input = "reset"
          THEN /\ conversation_history' = <<>>
               /\ feedback' = None
               /\ UNCHANGED <<current_attempt, current_plan, input_disabled, objectives,
                              workers, current_worker, screens>>
          ELSE /\ objectives < MaxSubmissions
               /\ objectives' = objectives + 1
               /\ conversation_history' =
                      Append(conversation_history,
                             HumanMessage(<<"objective", objectives + 1>>))
               /\ feedback' = None
               /\ current_attempt' = 0
               /\ input_disabled' = TRUE
               /\ workers' = run_worker(workers,
                                        Worker(objectives + 1, "plan_task", EmptyPlan,
                                               objectives + 1))
               /\ current_worker' = objectives + 1
               /\ UNCHANGED <<current_plan, screens>>
    /\ ThreadsFrame

\* tui.py:222-265: the thread counts the attempt, looks for the last
\* HumanMessage and calls create_plan with the history and the feedback
Threads_plan_task(w) ==
    /\ w \in workers
    /\ w.at = "plan_task"
    /\ current_attempt' = current_attempt + 1
    /\ IF ~HasHumanMessage(conversation_history)
       THEN /\ input_disabled' = FALSE
            /\ workers' = workers \ {w}
       ELSE /\ workers' = (workers \ {w}) \cup {[w EXCEPT !.at = "create_plan"]}
            /\ UNCHANGED input_disabled
    /\ UNCHANGED <<conversation_history, feedback, current_plan, objectives,
                   current_worker, screens>>
    /\ ThreadsFrame

\* tui.py:263-272 and 274-295: create_plan returns or raises; display_plan,
\* run by the main thread for the worker, keeps the plan and either ends the
\* objective with the thought or asks for approval
Threads_display_plan(w) ==
    /\ w \in workers
    /\ w.at = "create_plan"
    /\ workers' = workers \ {w}
    /\ \E out \in WorkerPlannerOutputs :
          IF out.kind = "Exception"
          THEN /\ input_disabled' = FALSE
               /\ UNCHANGED <<current_plan, conversation_history, screens>>
          ELSE /\ current_plan' = out.plan
               /\ IF out.plan.plan = <<>>
                  THEN /\ conversation_history' =
                              Append(conversation_history, AIMessage(<<"thought", w.obj>>))
                       /\ input_disabled' = FALSE
                       /\ UNCHANGED screens
                  ELSE /\ screens' = Append(screens, <<"approval", w.obj>>)
                       /\ UNCHANGED <<conversation_history, input_disabled>>
    /\ UNCHANGED <<feedback, current_attempt, objectives, current_worker>>
    /\ ThreadsFrame

\* tui.py:297-312: the answer to the approval dialog on top of the screen
Threads_on_approval_dialog_dismiss ==
    /\ screens # <<>>
    /\ screens[Len(screens)][1] = "approval"
    /\ screens' = SubSeq(screens, 1, Len(screens) - 1)
    /\ \E approved \in BOOLEAN :
          IF approved
          THEN /\ workers' = run_worker(workers,
                                        Worker(screens[Len(screens)][2], "execute_plan",
                                               current_plan, objectives))
               /\ current_worker' = screens[Len(screens)][2]
               /\ UNCHANGED input_disabled
          ELSE /\ input_disabled' = FALSE
               /\ UNCHANGED <<workers, current_worker>>
    /\ UNCHANGED <<conversation_history, feedback, current_attempt, current_plan,
                   objectives>>
    /\ ThreadsFrame

\* tui.py:314-318: escape asks for confirmation while the current worker is
\* running
action_request_interrupt ==
    /\ screens = <<>>
    /\ \E w \in workers : w.obj = current_worker /\ w.state = "RUNNING"
    /\ screens' = Append(screens, <<"interrupt", 0>>)
    /\ UNCHANGED <<conversation_history, feedback, current_attempt, current_plan,
                   input_disabled, objectives, workers, current_worker>>
    /\ ThreadsFrame

\* tui.py:320-327: on confirmation the current worker is cancelled and the
\* input is enabled
on_interrupt_dialog_dismiss ==
    /\ screens # <<>>
    /\ screens[Len(screens)][1] = "interrupt"
    /\ screens' = SubSeq(screens, 1, Len(screens) - 1)
    /\ \E confirmed \in BOOLEAN :
          IF confirmed /\ current_worker # 0
          THEN /\ workers' = {IF x.obj = current_worker
                              THEN [x EXCEPT !.state = "CANCELLED"] ELSE x : x \in workers}
               /\ input_disabled' = FALSE
          ELSE UNCHANGED <<workers, input_disabled>>
    /\ UNCHANGED <<conversation_history, feedback, current_attempt, current_plan,
                   objectives, current_worker>>
    /\ ThreadsFrame

\* tui.py:336-379: execute_plan has returned its ExecutionResult; without an
\* objective in the history the worker ends, otherwise it verifies
AfterExecution(w) ==
    IF ~HasHumanMessage(conversation_history)
    THEN /\ input_disabled' = FALSE
         /\ workers' = workers \ {w}
    ELSE /\ workers' = (workers \ {w}) \cup {[w EXCEPT !.at = "verify_task"]}
         /\ UNCHANGED input_disabled

\* tui.py:334-344 with executor.py:39-82: the thread draws the generator
\* up to the call of the next step's tool, or up to its end
Threads_execute_plan(w) ==
    /\ w \in workers
    /\ w.at = "execute_plan"
    /\ IF w.i < Len(w.plan.plan)
       THEN /\ workers' = (workers \ {w}) \cup {[w EXCEPT !.at = "tool_call"]}
            /\ UNCHANGED input_disabled
       ELSE AfterExecution(w)
    /\ UNCHANGED <<conversation_history, feedback, current_attempt, current_plan,
                   objectives, current_worker, screens>>
    /\ ThreadsFrame

\* executor.py:78-100: the tool call in flight returns; after an exception
\* execute_plan returns its failure at once, otherwise the next step follows
Threads_tool_call(w) ==
    /\ w \in workers
    /\ w.at = "tool_call"
    /\ \E raised \in BOOLEAN :
          IF raised
          THEN AfterExecution(w)
          ELSE /\ workers' = (workers \ {w})
                                \cup {[w EXCEPT !.at = "execute_plan", !.i = w.i + 1]}
               /\ UNCHANGED input_disabled
    /\ UNCHANGED <<conversation_history, feedback, current_attempt, current_plan,
                   objectives, current_worker, screens>>
    /\ ThreadsFrame

\* tui.py:381-431: the verdict; report, or feedback and the next round
Threads_verify_task(w) ==
    /\ w \in workers
    /\ w.at = "verify_task"
    /\ \E is_success \in BOOLEAN :
          IF is_success
          THEN /\ conversation_history' =
                      Append(conversation_history, AIMessage(<<"report", w.obj>>))
               /\ input_disabled' = FALSE
               /\ workers' = workers \ {w}
               /\ UNCHANGED <<feedback, current_worker>>
          ELSE /\ feedback' = Some(<<"feedback", w.obj>>)
               /\ conversation_history' =
                      Append(conversation_history,
                             AIMessage(<<"summary_and_feedback", w.obj>>))
               /\ IF current_attempt < max_attempts
                  THEN /\ workers' = run_worker(workers \ {w},
                                                Worker(w.obj, "plan_task", EmptyPlan,
                                                       objectives))
                       /\ current_worker' = w.obj
                       /\ UNCHANGED input_disabled
                  ELSE /\ input_disabled' = FALSE
                       /\ workers' = workers \ {w}
                       /\ UNCHANGED current_worker
    /\ UNCHANGED <<current_attempt, current_plan, objectives, screens>>
    /\ ThreadsFrame

\* the TUI after construction
InitWorkers ==
    /\ frontend = "tui"
    /\ plan = EmptyPlan
    /\ gen = "idle"
    /\ i = 0
    /\ results = <<>>
    /\ final_result = NoResult
    /\ invoked = <<>>
    /\ happened = <<>>
    /\ conversation_history = <<>>
    /\ feedback = None
    /\ current_attempt = 0
    /\ current_plan = EmptyPlan
    /\ input_disabled = FALSE
    /\ pc = "idle"
    /\ relevant_tools = {}
    /\ depth = 0
    /\ pending = EmptyPlan
    /\ objectives = 0
    /\ calls = <<>>
    /\ log = <<>>
    /\ exit = "none"
    /\ path_call = NoPathCall
    /\ path_result = "none"
    /\ ToolsUnused
    /\ WorkersUnused
    /\ ValidateUnused
    /\ ConfigUnused
    /\ CallerUnused

NextWorkers ==
    \/ Threads_on_button_pressed
    \/ \E w \in workers : Threads_plan_task(w)
    \/ \E w \in workers : Threads_display_plan(w)
    \/ Threads_on_approval_dialog_dismiss
    \/ action_request_interrupt
    \/ on_interrupt_dialog_dismiss
    \/ \E w \in workers : Threads_execute_plan(w)
    \/ \E w \in workers : Threads_tool_call(w)
    \/ \E w \in workers : Threads_verify_task(w)

SpecWorkers == InitWorkers /\ [][NextWorkers]_vars

\* the objective a message of the history, or the feedback, was written for
ObjectiveOf(msg) == msg[2][2]

\* C20: at most one worker operates on the loop state: there is never more
\* than one running thread, no worker started for an earlier objective
\* writes to the history after a later objective was submitted, the feedback
\* is the one of the latest objective, and no planning round is started for
\* an objective that is not the latest
C20_OneWorkerOnLoopState ==
    /\ Cardinality(workers) <= 1
    /\ \A n \in 1..Len(conversation_history) : \A m \in 1..Len(conversation_history) :
          ( /\ n < m
            /\ conversation_history[n][1] = "human"
            /\ conversation_history[m][1] = "ai" )
          => ObjectiveOf(conversation_history[m]) >= ObjectiveOf(conversation_history[n])
    /\ feedback # None => feedback[1][2] = objectives
    /\ \A w \in workers : w.at = "plan_task" => w.obj = w.since

\* C21: cancellation is cooperative: once the user has confirmed the
\* interrupt of the worker of an objective (here the first objective, whose
\* worker can only have been cancelled by the interrupt), the tool call in
\* flight may return, but that worker invokes no further step of its plan,
\* starts no verification and starts no further planning round
C21_CancellationBetweenSteps ==
    [][ \A w \in workers :
          (objectives = 1 /\ w.state = "CANCELLED") =>
             /\ w.at = "execute_plan" => [w EXCEPT !.at = "tool_call"] \notin workers'
             /\ w.at \in {"execute_plan", "tool_call"} =>
                   [w EXCEPT !.at = "verify_task"] \notin workers'
             /\ w.at = "verify_task" =>
                   ~\E v \in workers' : v.obj = w.obj /\ v.at = "plan_task" ]_vars

\* the judgment call of the latest verification failed
JudgmentJustFailed ==
    /\ Len(calls) >= 2
    /\ calls[Len(calls) - 1] = "judgment_raised"

\* the loop right after a failed verification with the generic feedback
TreatedAsFailedVerification ==
    /\ exit # "raised"
    /\ calls[Len(calls)] = "verifier_failed"
    /\ feedback = Some(<<"verifier_error">>)
    /\ feedback[1] # <<>>
    /\ conversation_history[Len(conversation_history)] = AIMessage("summary_and_feedback")
    /\ pc = (IF current_attempt < max_attempts THEN "plan_task" ELSE "idle")
    /\ pc = "idle" => (exit = "exhausted" /\ ~input_disabled)
    /\ Count(calls, "verifier_failed") = current_attempt

\* C22: verify_task never propagates an exception: a failed judgment call
\* gives is_success = false with the fixed, non-empty generic feedback, and
\* the loop treats it like any failed verification: the feedback is kept and
\* appended to the history with the summary, the attempt counts, and the
\* next planning round follows while attempts are left, the end of the
\* objective otherwise
C22_JudgmentFailureIsFailedVerification ==
    [][ (calls' # calls /\ JudgmentJustFailed') => TreatedAsFailedVerification' ]_vars

\* the judgment call failed in the first attempt and the second one is due
C22_Witness ==
    /\ JudgmentJustFailed
    /\ calls[Len(calls)] = "verifier_failed"
    /\ current_attempt = 1
    /\ pc = "plan_task"
    /\ feedback = Some(<<"verifier_error">>)

(***************************************************************************)
(* agents/supervisor.py _validate_plan on its own: a plan is handed over,  *)
(* validated in place, and the error and the plan object are looked at.    *)
(***************************************************************************)
\* supervisor.py:120  validation_error = _validate_plan(plan), inside
\* create_plan(messages, tools, feedback): the tools offered to the Planner
\* are at hand but are not handed to the validation
ValidatePlanCall ==
    /\ validate_result = None
    /\ validate_result' = Some(_validate_plan(validate_call))
    /\ UNCHANGED validate_call
    /\ UNCHANGED execVars
    /\ UNCHANGED loopVars
    /\ UNCHANGED pathVars
    /\ UNCHANGED toolVars
    /\ UNCHANGED workerVars
    /\ UNCHANGED configVars
    /\ UNCHANGED callerVars

InitValidate ==
    /\ validate_call \in ExecutionPlan
    /\ validate_result = None
    /\ plan = EmptyPlan
    /\ gen = "idle"
    /\ i = 0
    /\ results = <<>>
    /\ final_result = NoResult
    /\ invoked = <<>>
    /\ happened = <<>>
    /\ frontend = "none"
    /\ conversation_history = <<>>
    /\ feedback = None
    /\ current_attempt = 0
    /\ current_plan = EmptyPlan
    /\ input_disabled = FALSE
    /\ pc = "idle"
    /\ relevant_tools \in {RelevantTools(task_type) : task_type \in TaskTypes}
    /\ depth = 0
    /\ pending = EmptyPlan
    /\ objectives = 0
    /\ calls = <<>>
    /\ log = <<>>
    /\ exit = "none"
    /\ path_call = NoPathCall
    /\ path_result = "none"
    /\ ToolsUnused
    /\ WorkersUnused
    /\ ConfigUnused
    /\ CallerUnused

NextValidate == ValidatePlanCall

SpecValidate == InitValidate /\ [][NextValidate]_vars

\* C23: when _validate_plan returns an unknown-tool error, the argument
\* mappings of all steps of the plan are what they were at the call
C23_UnknownToolMutatesNothing ==
    ( /\ validate_result # None
      /\ validate_result[1].error # None
      /\ validate_result[1].error[1][1] = "unknown_tool" )
    => validate_result[1].plan = validate_call

\* C24: when _validate_plan returns none, every step names a registered
\* tool, carries only fields of that tool, namely the recognized ones it was
\* handed over with and with their values, and carries every required
\* field; a plan without steps returns none
C24_ValidPlanFitsRegistry ==
    /\ ( validate_result # None /\ validate_result[1].error = None ) =>
          LET p == validate_result[1].plan
          IN  /\ p.thought = validate_call.thought
              /\ Len(p.plan) = Len(validate_call.plan)
              /\ \A k \in 1..Len(p.plan) :
                    /\ p.plan[k].tool_name = validate_call.plan[k].tool_name
                    /\ p.plan[k].tool_name \in DOMAIN all_tools
                    /\ DOMAIN p.plan[k].arguments =
                          (DOMAIN validate_call.plan[k].arguments)
                              \cap all_tools[p.plan[k].tool_name].properties
                    /\ \A key \in DOMAIN p.plan[k].arguments :
                          p.plan[k].arguments[key] = validate_call.plan[k].arguments[key]
                    /\ all_tools[p.plan[k].tool_name].required
                          \subseteq DOMAIN p.plan[k].arguments
    /\ ( validate_result # None /\ validate_call.plan = <<>> ) =>
          validate_result[1] = [error |-> None, plan |-> validate_call]

\* a two-step plan passed validation after an unrecognized key was removed
\* from its first step
C24_Witness ==
    /\ validate_result # None
    /\ validate_result[1].error = None
    /\ Len(validate_call.plan) = 2
    /\ "unused_key" \in DOMAIN validate_call.plan[1].arguments
    /\ "unused_key" \notin DOMAIN validate_result[1].plan.plan[1].arguments
    /\ validate_call.plan[1].tool_name = "ai_read_and_apply_changes"

\* C25: the attempt counter stays within 0..max_attempts; it changes only
\* by the reset of a new objective and by the increment of a planning
\* round, one at a time, and no request made inside create_plan changes it
C25_AttemptCounterBounded ==
    [][ /\ current_attempt' \in 0..max_attempts
        /\ pc = "create_plan" => current_attempt' = current_attempt
        /\ current_attempt' # current_attempt =>
              \/ current_attempt' = current_attempt + 1
              \/ current_attempt' = 0 /\ objectives' = objectives + 1 ]_vars

(***************************************************************************)
(* The two call sites of execute_plan on their own: each is entered with   *)
(* a plan and the generator execute_plan(plan) just made.                  *)
(***************************************************************************)
\* tui.py:336-339  log_message = next(execution_generator)
TuiNext ==
    /\ frontend = "tui"
    /\ result_read = None
    /\ NextExec

\* tui.py:340-342  except StopIteration as e: final_result = e.value
TuiStopIteration ==
    /\ frontend = "tui"
    /\ result_read = None
    /\ gen = "returned"
    /\ result_read' = Some(final_result)
    /\ UNCHANGED execVars
    /\ UNCHANGED loopVars
    /\ UNCHANGED pathVars
    /\ UNCHANGED toolVars
    /\ UNCHANGED workerVars
    /\ UNCHANGED validateVars
    /\ UNCHANGED configVars

\* main.py:52-57  execution_result = execute_plan(plan) keeps the generator
\* itself, and execution_result.status is looked up on it: no narration has
\* been drawn, and the generator has no such attribute
CliReadStatus ==
    /\ frontend = "cli"
    /\ result_read = None
    /\ gen = "start"
    /\ result_read' = Some(<<"generator", "AttributeError">>)
    /\ exit' = "raised"
    /\ UNCHANGED <<frontend, conversation_history, feedback, current_attempt, current_plan,
                   input_disabled, pc, relevant_tools, depth, pending, objectives, calls,
                   log>>
    /\ UNCHANGED execVars
    /\ UNCHANGED pathVars
    /\ UNCHANGED toolVars
    /\ UNCHANGED workerVars
    /\ UNCHANGED validateVars
    /\ UNCHANGED configVars

InitCallers ==
    /\ frontend \in {"tui", "cli"}
    /\ plan \in ExecutionPlan
    /\ gen = "start"
    /\ i = 0
    /\ results = <<>>
    /\ final_result = NoResult
    /\ invoked = <<>>
    /\ happened = <<>>
    /\ conversation_history = <<>>
    /\ feedback = None
    /\ current_attempt = 0
    /\ current_plan = EmptyPlan
    /\ input_disabled = FALSE
    /\ pc = "idle"
    /\ relevant_tools = {}
    /\ depth = 0
    /\ pending = EmptyPlan
    /\ objectives = 0
    /\ calls = <<>>
    /\ log = <<>>
    /\ exit = "none"
    /\ path_call = NoPathCall
    /\ path_result = "none"
    /\ ToolsUnused
    /\ WorkersUnused
    /\ ValidateUnused
    /\ ConfigUnused
    /\ result_read = None

NextCallers == TuiNext \/ TuiStopIteration \/ CliReadStatus

SpecCallers == InitCallers /\ [][NextCallers]_vars

Roots == {"package_root", "elsewhere"}

\* a name YYYYMMDD_NN, or one whose last part int() rejects
DirName(date, numeric, seq) == [date |-> date, numeric |-> numeric, seq |-> seq]

\* names an agent_log directory may hold when the process starts
ExistingNames ==
    {DirName("today", TRUE, n) : n \in 1..MaxSeq}
        \cup {DirName("today", FALSE, 0), DirName("yesterday", TRUE, MaxSeq + 1)}

Max(S) == CHOOSE x \in S : \A y \in S : y <= x

\* config.py:27-36 and 73-84: the sequence number after a scan of the entries
next_seq(entries) ==
    Max({1} \cup {e.seq + 1 : e \in {x \in entries : x.date = "today" /\ x.numeric}})

\* config.py:38-40 and 87-91: the session directory made in the agent_log of `root`
session_dir(root, entries) ==
    [root |-> root, name |-> DirName("today", TRUE, next_seq(entries))]

\* config.py:7-55: the first version; SESSION_BACKUP_DIR is "" at line 54, so
\* set_project_root(os.getcwd()) runs
ConfigFirstVersion ==
    /\ config_pc = "start"
    /\ LET dir == session_dir(cwd, log_dirs[cwd])
       IN  /\ log_dirs' = [log_dirs EXCEPT ![cwd] = @ \cup {dir.name}]
           /\ SESSION_BACKUP_DIR' = Some(dir)
           /\ created' = Append(created, dir)
    /\ config_pc' = "second"
    /\ UNCHANGED cwd
    /\ UNCHANGED execVars
    /\ UNCHANGED loopVars
    /\ UNCHANGED pathVars
    /\ UNCHANGED toolVars
    /\ UNCHANGED workerVars
    /\ UNCHANGED validateVars
    /\ UNCHANGED callerVars

\* config.py:56-96: the second version; SESSION_BACKUP_DIR =
\* _create_session_backup_dir() under the package root
ConfigSecondVersion ==
    /\ config_pc = "second"
    /\ LET dir == session_dir("package_root", log_dirs["package_root"])
       IN  /\ log_dirs' = [log_dirs EXCEPT !["package_root"] = @ \cup {dir.name}]
           /\ SESSION_BACKUP_DIR' = Some(dir)
           /\ created' = Append(created, dir)
    /\ config_pc' = "imported"
    /\ UNCHANGED cwd
    /\ UNCHANGED execVars
    /\ UNCHANGED loopVars
    /\ UNCHANGED pathVars
    /\ UNCHANGED toolVars
    /\ UNCHANGED workerVars
    /\ UNCHANGED validateVars
    /\ UNCHANGED callerVars

InitConfig ==
    /\ config_pc = "start"
    /\ cwd \in Roots
    /\ log_dirs \in [Roots -> SUBSET ExistingNames]
    /\ SESSION_BACKUP_DIR = None
    /\ created = <<>>
    /\ plan = EmptyPlan
    /\ gen = "idle"
    /\ i = 0
    /\ results = <<>>
    /\ final_result = NoResult
    /\ invoked = <<>>
    /\ happened = <<>>
    /\ frontend = "none"
    /\ conversation_history = <<>>
    /\ feedback = None
    /\ current_attempt = 0
    /\ current_plan = EmptyPlan
    /\ input_disabled = FALSE
    /\ pc = "idle"
    /\ relevant_tools = {}
    /\ depth = 0
    /\ pending = EmptyPlan
    /\ objectives = 0
    /\ calls = <<>>
    /\ log = <<>>
    /\ exit = "none"
    /\ path_call = NoPathCall
    /\ path_result = "none"
    /\ ToolsUnused
    /\ WorkersUnused
    /\ ValidateUnused
    /\ CallerUnused

NextConfig == ConfigFirstVersion \/ ConfigSecondVersion

SpecConfig == InitConfig /\ [][NextConfig]_vars

\* the entries the agent_log of `root` held when the process started
FoundAtStart(root) == log_dirs[root] \ {created[n].name : n \in {k \in 1..Len(created) : created[k].root = root}}

\* C27: once config.py is imported the process has created exactly one
\* session directory, named today's date with the sequence number 1 + the
\* largest numeric suffix among the same-date entries found (1 without any),
\* and SESSION_BACKUP_DIR, where the backups go, is that directory
C27_OneSessionBackupDir ==
    config_pc = "imported" =>
        /\ Len(created) = 1
        /\ SESSION_BACKUP_DIR = Some(created[1])
        /\ created[1].name =
              DirName("today", TRUE, next_seq(FoundAtStart(created[1].root)))

\* C28: an unexpected exception of the Planner request ends create_plan at
\* once, without a further request and without an exception: the plan it
\* returns has no steps and the error message as its thought; display_plan
\* shows that thought and appends it to the history as the final answer; no
\* execution, verification or report follows, and no further attempt is made
C28_PlannerExceptionEndsObjective ==
    [][ /\ ( pc = "create_plan" /\ pending'.thought = <<"planning_error">> ) =>
              /\ pending'.plan = <<>>
              /\ pc' = "display_plan"
              /\ calls' \in {Append(calls, "planner"), Append(calls, "planner_retry")}
              /\ exit' = exit
              /\ exit' # "raised"
        /\ ( pc = "display_plan" /\ pending.thought = <<"planning_error">> ) =>
              /\ pc' = "idle"
              /\ exit' = "thought"
              /\ ~input_disabled'
              /\ log'[Len(log')] = <<"agent", <<"planning_error">>>>
              /\ conversation_history' =
                    Append(conversation_history, AIMessage(<<"planning_error">>))
              /\ calls' = calls
              /\ gen' = gen
              /\ current_attempt' = current_attempt
        /\ ( /\ pc = "idle"
             /\ exit = "thought"
             /\ current_plan.thought = <<"planning_error">>
             /\ objectives' = objectives ) =>
              /\ calls' = calls
              /\ current_attempt' = current_attempt
              /\ pc' = "idle" ]_vars

\* the first Planner request of an objective raised, and the error message
\* is the final answer
C28_Witness ==
    /\ frontend = "tui"
    /\ pc = "idle"
    /\ exit = "thought"
    /\ calls = <<"planner">>
    /\ current_attempt = 1
    /\ current_plan = ErrorPlan
    /\ conversation_history = <<HumanMessage("objective"), AIMessage(<<"planning_error">>)>>
    /\ ~input_disabled

\* C29: validation and dispatch go by the full registry, whatever subset was
\* offered to the Planner: a tool name is rejected as unknown only when the
\* full registry lacks it, a plan whose steps name registered tools and
\* carry their required fields passes, and every step of a plan that passed
\* names a tool the dispatcher holds
C29_FullRegistryDecides ==
    validate_result # None =>
        /\ ( /\ validate_result[1].error # None
             /\ validate_result[1].error[1][1] = "unknown_tool" )
           => validate_result[1].error[1][2] \notin DOMAIN all_tools
        /\ ( \A k \in 1..Len(validate_call.plan) :
                /\ validate_call.plan[k].tool_name \in DOMAIN all_tools
                /\ all_tools[validate_call.plan[k].tool_name].required
                       \subseteq DOMAIN validate_call.plan[k].arguments )
           => validate_result[1].error = None
        /\ validate_result[1].error = None =>
              \A k \in 1..Len(validate_call.plan) :
                 validate_result[1].plan.plan[k].tool_name \in DOMAIN TOOL_DISPATCHER

\* the file system tools were offered, and a plan that reads and edits code
\* passed validation
C29_Witness ==
    /\ validate_result # None
    /\ validate_result[1].error = None
    /\ relevant_tools = file_system_tools_list
    /\ Len(validate_call.plan) = 2
    /\ validate_call.plan[1].tool_name = "safe_read_file"
    /\ validate_call.plan[2].tool_name = "ai_read_and_apply_changes"
    /\ validate_call.plan[1].tool_name \notin relevant_tools
    /\ validate_call.plan[1].tool_name \in DOMAIN TOOL_DISPATCHER

\* C30: the session backup directory holds one copy per path, and a later
\* backup of the same file replaces it: the copy of a path changes only by
\* a backup of that path, which makes it the file's content of that moment,
\* so after every backed-up write the copy is the content the file had just
\* before this write, whatever copy was there from earlier writes
C30_BackupsOverwrite ==
    [][ /\ \A p \in ToolPaths :
              backup_dir'[p] # backup_dir[p] =>
                 /\ tool_pc = "backup"
                 /\ p = tool_call.file_path
                 /\ fs[p] # None
                 /\ backup_dir'[p] = fs[p]
        /\ ( /\ tool_pc = "write"
             /\ tool_pc' = "done"
             /\ tool_trace'[Len(tool_trace')] = "written"
             /\ backup_msg # None
             /\ backup_msg[1] = "Backup created at: " ) =>
              /\ backup_dir'[tool_call.file_path] = fs[tool_call.file_path]
              /\ backup_dir'[tool_call.file_path] = tool_call.fs0[tool_call.file_path] ]_vars

\* the second backed-up write to src/app.py is done: the copy made for the
\* first write, the content at the start, has been replaced by the content
\* the first write left
C30_Witness ==
    /\ tool_pc = "done"
    /\ tool_calls = 2
    /\ tool_call.name = "safe_replace_string"
    /\ tool_call.file_path = << <<"src">>, <<"app", ".py">> >>
    /\ tool_trace[Len(tool_trace)] = "written"
    /\ tool_call.backup0[tool_call.file_path] = Some(<<"a">>)
    /\ tool_call.fs0[tool_call.file_path] = Some(<<"a", "r">>)
    /\ backup_dir[tool_call.file_path] = Some(<<"a", "r">>)
    /\ fs[tool_call.file_path] = Some(<<"a", "r", "r">>)

====
